---- MODULE Spec2Model ----
(***************************************************************************)
(* A model of kubectl-ai: the filesystem session store                     *)
(* (pkg/sessions), the retry decorator (gollm), the built-in shell tool    *)
(* (pkg/tools) and the reason-act agent loop.                              *)
(***************************************************************************)
EXTENDS Integers, Sequences, FiniteSets, TLC

\* ------------------------------------------------------------------ bounds
MaxStores == 2
MaxAppends == 3
MaxReplaceLen == 2
MaxMutations == 1
MaxFileEntries == 3
MaxLists == 1
MaxAttemptsCfg == 3
MaxBackoffCfg == 4
MaxBudget == 2
MaxCalls == 2
MaxCmdLen == 4
MaxDefs == 2
MaxSetCalls == 2
MaxContents == 2
MaxToolCalls == 1
MaxSubscriptions == 2
MaxChanges == 3
MaxMcpCalls == 3
MaxNameLen == 2
MaxCatalog == 2
MaxClock == 3
MaxStored == 3
MaxRegistrations == 3
MaxProviderIDLen == 2
MaxSchemaDepth == 1
MaxArgs == 2
MaxQueries == 3
MaxTextLen == 2

\* goroutines that use the session store
Procs == {"p1", "p2"}

NoProc == "none"

VARIABLES
    historyFile,  \* bytes of <session>/history.json, as a sequence of tokens
    nStores,      \* FileChatMessageStore objects created so far (1..nStores)
    mu,           \* mu[h]: the goroutine holding store h's mutex, or NoProc
    pc,           \* pc[p]: where goroutine p is inside a store operation
    hnd,          \* hnd[p]: the store object p is operating through
    fdOff,        \* fdOff[p]: file offset of p's descriptor (no O_APPEND)
    pending,      \* pending[p]: byte chunks p still has to pass to Write
    scanp,        \* scanp[p]: json.Decoder read position (1-based)
    decErr,       \* decErr[p]: json.Decoder's sticky error (dec.err # nil)
    messages,     \* messages[p]: ChatMessages' local result slice
    ret,          \* ret[p]: what the last ChatMessages call returned
    nextId,       \* id of the next message an AddChatMessage call will carry
    nMut,         \* SetChatMessages/ClearChatMessages calls made so far
    nLists,       \* ChatMessages calls made so far
    \* --- gollm.Retry
    config,       \* the RetryConfig and the isRetryable predicate passed in
    ctxDone,      \* the caller's context is cancelled
    rpc,          \* where Retry is
    attempt,      \* the loop variable of Retry
    backoff,      \* Retry's current backoff
    waitTime,     \* the wait Retry is in, or was last in
    lastErr,      \* Retry's lastErr
    calls,        \* invocations of the underlying operation so far
    slept,        \* total time waited so far
    retryRet,     \* what Retry returned
    opLog,        \* what each call of the operation returned, in order
    \* --- the agent's reason-act loop
    aState,       \* AwaitingLLM, ExecutingTools, Done or Aborted
    budget,       \* the max-iteration budget the run was given
    iterLeft,     \* the iteration counter
    sessionMsgs,  \* the session's message history
    content,      \* the content prepared for the next Send
    sends,        \* the content of every Send call made, in order
    pendingCalls, \* function calls of the last response not yet dispatched
    executed,     \* call ids of the tool executions made, in order
    blocks,       \* the blocks appended to the UI document
    exitCode,     \* exit code of the turn, -1 while it runs
    fnDefsSet,    \* SetFunctionDefinitions has been called on the chat
    nextCallId,   \* id the provider gives to the next function call
    \* --- BashTool.Run and executeCommand
    tpc,          \* where the tool invocation is
    toolArgs,     \* the args map of the invocation
    toolRet,      \* what Run returned: the ExecResult (or nil) and the error
    spawned,      \* child processes started so far
    child,        \* the child process: none, running, exited or reaped
    outOpen,      \* the child's stdout pipe is still open
    errOpen,      \* the child's stderr pipe is still open
    outDone,      \* the stdout reader has sent on stdoutDone, not yet received
    errDone,      \* the stderr reader has sent on stderrDone, not yet received
    gotOut,       \* executeCommand has received from stdoutDone
    gotErr,       \* executeCommand has received from stderrDone
    sigint,       \* a SIGINT is waiting on the interrupt channel
    signalled,    \* executeCommand has forwarded the interrupt to the child
    process,      \* the agent process: running or exited
    sigCh,        \* a signal is waiting on main's sigCh
    \* --- provider chats and adapters
    provider,     \* the provider of the chat: gemini or azure
    chatTools,    \* the tools the chat sends to the provider
    setLog,       \* the SetFunctionDefinitions calls made: definitions, error
    chatHistory,  \* AzureOpenAIChat.history
    requests,     \* requests sent to the provider
    sendArgs,     \* the contents of the last Send
    sendRet,      \* what the last Send returned
    adapterRet,   \* how the last adapter function applied to a response ended
    cpc,          \* where the chat's Send call is
    \* --- ui.Document
    docBlocks,    \* d.blocks, as the ids of the blocks
    nextBlockID,  \* d.nextBlockID
    subscriptions,\* d.subscriptions, as subscription ids
    nextSubscriptionID, \* d.nextSubscriptionID
    closed,       \* the subscriptions whose subscriber is nil
    closedAt,     \* per subscription: the number of changes applied when Close returned
    applied,      \* the additions and mutations applied to the document, in order
    delivered,    \* delivered[s]: the changes subscriber s was called back for
    dpc,          \* dpc[t]: where task t is in AddBlock or in a block setter
    dchange,      \* dchange[t]: the change task t is reporting
    dsnap,        \* dsnap[t]: the subscriptions sendDocumentChanged copied
    dnext,        \* dnext[t]: the next subscription of dsnap[t] to call
    \* --- the MCP clients (stdioClient, httpClient)
    mClient,      \* c.client: nil or set
    mTransport,   \* the transport of the server: none, open or closed
    mHandshake,   \* Initialize succeeded in the last connection made
    mVerified,    \* the verifying ListTools succeeded in the last connection made
    mRet,         \* the operation called last and the error it returned
    mLog,         \* every operation called on the client and its error, in order
    mcpCatalog,   \* the merged catalog: the tools with their server and id
    \* --- session metadata and message timestamps
    clock,        \* what time.Now() returns
    metadata,     \* the session's metadata file: CreatedAt, LastAccessed
    storedMsgs,      \* the messages of history.json in file order: id, Timestamp, time of the append
    smsg,         \* smsg[p]: the message goroutine p has made and not yet appended
    spc,          \* spc[p]: idle, or created when p holds a message to append
    \* provider registry (gollm factory)
    phase,          \* "init" while package init functions run, then "main"
    providers,      \* globalRegistry.providers: id -> factory, "nil" if absent
    regMutex,       \* globalRegistry.mutex is held
    regCall,            \* the RegisterProvider call in progress, if any
    regLog,         \* the RegisterProvider calls that returned, in order
    readers,        \* per goroutine: its NewClient call
    \* schema translation
    trProvider,     \* the provider whose dialect the schema was translated to
    trSchema,       \* the schema in the uniform form
    trOut,          \* what the translation returned
    \* the kubectl-ai command (main and run)
    mainPc,         \* where run is: "flags", "args", "setup", "once", "loop", "exited"
    exitStatus,     \* the exit status of the process, -1 while it runs
    exitCause,      \* why the process ended
    queryFromCmd,   \* a query came from the command line or from stdin
    pendingSig,     \* the signal waiting in main's sigCh, "" if none
    sigInLoop,      \* the signal arrived while run was in its main loop
    chatQueries,    \* len(chatSession.Queries)
    \* the two session stores, given the same calls
    memSessions,    \* memoryStore.sessions: id -> session
    fsSessions,     \* the session directories under basePath: id -> session
    lastCreate,     \* the last CreateSession call and what each store returned
    \* an agent text block
    bText,          \* b.text
    bHtml,          \* b.html: empty, or the one cached rendering
    lastHTML        \* the last HTML() call: what it returned, and b.text then

storeVars == <<historyFile, nStores, mu, pc, hnd, fdOff, pending, scanp,
               decErr, messages, ret, nextId, nMut, nLists>>

retryVars == <<config, ctxDone, rpc, attempt, backoff, waitTime, lastErr,
               calls, slept, retryRet, opLog>>

agentVars == <<aState, budget, iterLeft, sessionMsgs, content, sends,
               pendingCalls, executed, blocks, exitCode, fnDefsSet, nextCallId>>

toolVars == <<tpc, toolArgs, toolRet, spawned, child, outOpen, errOpen,
              outDone, errDone, gotOut, gotErr, sigint, signalled, process, sigCh>>

chatVars == <<provider, chatTools, setLog, chatHistory, requests, sendArgs,
              sendRet, adapterRet, cpc>>

docVars == <<docBlocks, nextBlockID, subscriptions, nextSubscriptionID, closed, closedAt,
             applied, delivered, dpc, dchange, dsnap, dnext>>

mcpVars == <<mClient, mTransport, mHandshake, mVerified, mRet, mLog, mcpCatalog>>

sessVars == <<clock, metadata, storedMsgs, smsg, spc>>

regVars == <<phase, providers, regMutex, regCall, regLog, readers>>

schemaVars == <<trProvider, trSchema, trOut>>

cmdVars == <<mainPc, exitStatus, exitCause, queryFromCmd, pendingSig, sigInLoop, chatQueries>>

pairVars == <<memSessions, fsSessions, lastCreate>>

blockVars == <<bText, bHtml, lastHTML>>

vars == <<storeVars, retryVars, agentVars, toolVars, chatVars, docVars, mcpVars, sessVars, regVars, schemaVars, cmdVars, pairVars, blockVars>>

\* ------------------------------------------------------------ file bytes
\* One token stands for a run of bytes of the history file.
Tok(k, v) == [k |-> k, v |-> v]
NL == Tok("nl", 0)                 \* '\n'
NUL == Tok("nul", 0)               \* a hole left by a write past the end
BadType == Tok("badtype", 0)       \* valid JSON that is no api.Message
BadSyntax == Tok("badsyntax", 0)   \* bytes that are not JSON
BadClose == Tok("badclose", 0)     \* garbage that starts with ']' or '}'

\* json.Marshal(msg): the JSON bytes of one message.
Marshal(msg) == <<Tok("json", msg)>>

RECURSIVE Repeat(_, _)
Repeat(x, n) == IF n <= 0 THEN <<>> ELSE <<x>> \o Repeat(x, n - 1)

\* write(2) of data at offset off (0-based) of a file: pads a gap with
\* NUL bytes, overwrites what is there, keeps what lies behind it.
WriteAt(f, off, data) ==
    LET head == IF off <= Len(f) THEN SubSeq(f, 1, off)
                ELSE f \o Repeat(NUL, off - Len(f))
        tailStart == off + Len(data) + 1
    IN head \o data \o (IF tailStart <= Len(f) THEN SubSeq(f, tailStart, Len(f)) ELSE <<>>)

\* The offset a write through an O_APPEND descriptor goes to: the current
\* end of the file, whatever the descriptor's own offset is.
AppendOffset(f, own) == Len(f)

\* Two Write calls, the message and then the newline.
WriteChunksSplit(b) == << b, <<NL>> >>

\* A single Write call that carries the message and its newline.
WriteChunks(b) == << b \o <<NL>> >>

\* ------------------------------------------------------------ the decoder
IsSpace(t) == t.k = "nl"

\* Decoder.peek: the first position at or after i that holds no white
\* space, or Len(f)+1 at the end of the input.
RECURSIVE Peek(_, _)
Peek(f, i) == IF i > Len(f) THEN Len(f) + 1
              ELSE IF IsSpace(f[i]) THEN Peek(f, i + 1) ELSE i

\* Decoder.More: there is another value and it does not start with ] or }.
More(f, i) == /\ Peek(f, i) <= Len(f)
              /\ f[Peek(f, i)].k # "badclose"

\* What Decoder.Decode(&message) does with the token at position i.
DecodeOutcome(t) ==
    CASE t.k = "json" -> "ok"
      [] t.k = "badtype" -> "typeError"      \* value consumed, error returned
      [] OTHER -> "syntaxError"              \* nothing consumed, dec.err set

\* ------------------------------------------------------- store operations
InOp(p) == pc[p] # "idle"

\* filesystemStore.GetSession: every call builds a new store object with a
\* mutex of its own.
GetSession ==
    /\ nStores < MaxStores
    /\ nStores' = nStores + 1
    /\ UNCHANGED <<historyFile, mu, pc, hnd, fdOff, pending, scanp, decErr,
                   messages, ret, nextId, nMut, nLists>>
    /\ UNCHANGED <<retryVars, agentVars, toolVars, chatVars, docVars, mcpVars, sessVars, regVars, schemaVars, cmdVars, pairVars, blockVars>>

Acquire(p, h) ==
    /\ pc[p] = "idle"
    /\ h \in 1..nStores
    /\ mu[h] = NoProc
    /\ mu' = [mu EXCEPT ![h] = p]
    /\ hnd' = [hnd EXCEPT ![p] = h]

\* The deferred f.Close() and s.mu.Unlock(); the call's locals are gone.
Release(p) ==
    /\ mu' = [mu EXCEPT ![hnd[p]] = NoProc]
    /\ hnd' = [hnd EXCEPT ![p] = 0]
    /\ pc' = [pc EXCEPT ![p] = "idle"]
    /\ fdOff' = [fdOff EXCEPT ![p] = 0]
    /\ scanp' = [scanp EXCEPT ![p] = 1]
    /\ decErr' = [decErr EXCEPT ![p] = FALSE]
    /\ messages' = [messages EXCEPT ![p] = <<>>]

\* AddChatMessage: Lock, OpenFile(O_APPEND|O_CREATE|O_WRONLY), Marshal.
AddBegin(p, h) ==
    /\ nextId <= MaxAppends
    /\ Acquire(p, h)
    /\ pc' = [pc EXCEPT ![p] = "add_write"]
    /\ pending' = [pending EXCEPT ![p] = WriteChunks(Marshal(nextId))]
    /\ fdOff' = [fdOff EXCEPT ![p] = 0]
    /\ nextId' = nextId + 1
    /\ UNCHANGED <<historyFile, nStores, scanp, decErr, messages, ret, nMut, nLists>>
    /\ UNCHANGED <<retryVars, agentVars, toolVars, chatVars, docVars, mcpVars, sessVars, regVars, schemaVars, cmdVars, pairVars, blockVars>>

\* AddChatMessage: f.Write(append(b, '\n')).
AddWrite(p) ==
    /\ pc[p] = "add_write"
    /\ pending[p] # <<>>
    /\ LET data == Head(pending[p])
           off == AppendOffset(historyFile, fdOff[p])
       IN /\ historyFile' = WriteAt(historyFile, off, data)
          /\ fdOff' = [fdOff EXCEPT ![p] = off + Len(data)]
    /\ pending' = [pending EXCEPT ![p] = Tail(pending[p])]
    /\ UNCHANGED <<nStores, mu, pc, hnd, scanp, decErr, messages, ret, nextId, nMut, nLists>>
    /\ UNCHANGED <<retryVars, agentVars, toolVars, chatVars, docVars, mcpVars, sessVars, regVars, schemaVars, cmdVars, pairVars, blockVars>>

\* AddChatMessage: return nil (deferred Close and Unlock).
AddEnd(p) ==
    /\ pc[p] = "add_write"
    /\ pending[p] = <<>>
    /\ Release(p)
    /\ UNCHANGED <<historyFile, nStores, pending, ret, nextId, nMut, nLists>>
    /\ UNCHANGED <<retryVars, agentVars, toolVars, chatVars, docVars, mcpVars, sessVars, regVars, schemaVars, cmdVars, pairVars, blockVars>>

\* The lines SetChatMessages writes, one Write call each.
RECURSIVE ReplaceChunks(_, _)
ReplaceChunks(first, n) ==
    IF n <= 0 THEN <<>>
    ELSE WriteChunks(Marshal(first)) \o ReplaceChunks(first + 1, n - 1)

\* SetChatMessages: Lock, OpenFile(O_WRONLY|O_CREATE|O_TRUNC).
SetBegin(p, h, n) ==
    /\ nMut < MaxMutations
    /\ n \in 0..MaxReplaceLen
    /\ Acquire(p, h)
    /\ pc' = [pc EXCEPT ![p] = "set_write"]
    /\ historyFile' = <<>>
    /\ fdOff' = [fdOff EXCEPT ![p] = 0]
    /\ pending' = [pending EXCEPT ![p] = ReplaceChunks(1, n)]
    /\ nMut' = nMut + 1
    /\ UNCHANGED <<nStores, scanp, decErr, messages, ret, nextId, nLists>>
    /\ UNCHANGED <<retryVars, agentVars, toolVars, chatVars, docVars, mcpVars, sessVars, regVars, schemaVars, cmdVars, pairVars, blockVars>>

\* SetChatMessages: one f.Write(append(b, '\n')) of the loop, at the
\* descriptor's own offset.
SetWrite(p) ==
    /\ pc[p] = "set_write"
    /\ pending[p] # <<>>
    /\ LET data == Head(pending[p])
       IN /\ historyFile' = WriteAt(historyFile, fdOff[p], data)
          /\ fdOff' = [fdOff EXCEPT ![p] = fdOff[p] + Len(data)]
    /\ pending' = [pending EXCEPT ![p] = Tail(pending[p])]
    /\ UNCHANGED <<nStores, mu, pc, hnd, scanp, decErr, messages, ret, nextId, nMut, nLists>>
    /\ UNCHANGED <<retryVars, agentVars, toolVars, chatVars, docVars, mcpVars, sessVars, regVars, schemaVars, cmdVars, pairVars, blockVars>>

\* SetChatMessages: return nil.
SetEnd(p) ==
    /\ pc[p] = "set_write"
    /\ pending[p] = <<>>
    /\ Release(p)
    /\ UNCHANGED <<historyFile, nStores, pending, ret, nextId, nMut, nLists>>
    /\ UNCHANGED <<retryVars, agentVars, toolVars, chatVars, docVars, mcpVars, sessVars, regVars, schemaVars, cmdVars, pairVars, blockVars>>

\* ClearChatMessages: Lock, OpenFile(O_TRUNC).
ClearBegin(p, h) ==
    /\ nMut < MaxMutations
    /\ Acquire(p, h)
    /\ pc' = [pc EXCEPT ![p] = "clear_close"]
    /\ historyFile' = <<>>
    /\ nMut' = nMut + 1
    /\ UNCHANGED <<nStores, fdOff, pending, scanp, decErr, messages, ret, nextId, nLists>>
    /\ UNCHANGED <<retryVars, agentVars, toolVars, chatVars, docVars, mcpVars, sessVars, regVars, schemaVars, cmdVars, pairVars, blockVars>>

\* ClearChatMessages: return f.Close().
ClearEnd(p) ==
    /\ pc[p] = "clear_close"
    /\ Release(p)
    /\ UNCHANGED <<historyFile, nStores, pending, ret, nextId, nMut, nLists>>
    /\ UNCHANGED <<retryVars, agentVars, toolVars, chatVars, docVars, mcpVars, sessVars, regVars, schemaVars, cmdVars, pairVars, blockVars>>

\* ChatMessages: Lock, os.Open, json.NewDecoder(f).
ListBegin(p, h) ==
    /\ nLists < MaxLists
    /\ Acquire(p, h)
    /\ pc' = [pc EXCEPT ![p] = "list_scan"]
    /\ scanp' = [scanp EXCEPT ![p] = 1]
    /\ decErr' = [decErr EXCEPT ![p] = FALSE]
    /\ messages' = [messages EXCEPT ![p] = <<>>]
    /\ nLists' = nLists + 1
    /\ UNCHANGED <<historyFile, nStores, fdOff, pending, ret, nextId, nMut>>
    /\ UNCHANGED <<retryVars, agentVars, toolVars, chatVars, docVars, mcpVars, sessVars, regVars, schemaVars, cmdVars, pairVars, blockVars>>

\* ChatMessages: one turn of `for scanner.More() { Decode; continue/append }`.
ListStep(p) ==
    /\ pc[p] = "list_scan"
    /\ More(historyFile, scanp[p])
    /\ LET i == Peek(historyFile, scanp[p])
           outcome == IF decErr[p] THEN "stickyError"
                      ELSE DecodeOutcome(historyFile[i])
       IN /\ scanp' = [scanp EXCEPT ![p] = IF outcome \in {"ok", "typeError"} THEN i + 1 ELSE i]
          /\ decErr' = [decErr EXCEPT ![p] = decErr[p] \/ outcome = "syntaxError"]
          /\ messages' = [messages EXCEPT ![p] =
                 IF outcome = "ok" THEN Append(messages[p], historyFile[i].v)
                 ELSE messages[p]]
    /\ UNCHANGED <<historyFile, nStores, mu, pc, hnd, fdOff, pending, ret, nextId, nMut, nLists>>
    /\ UNCHANGED <<retryVars, agentVars, toolVars, chatVars, docVars, mcpVars, sessVars, regVars, schemaVars, cmdVars, pairVars, blockVars>>

\* ChatMessages: the loop ends, return messages.
ListEnd(p) ==
    /\ pc[p] = "list_scan"
    /\ ~More(historyFile, scanp[p])
    /\ ret' = [ret EXCEPT ![p] = messages[p]]
    /\ Release(p)
    /\ UNCHANGED <<historyFile, nStores, pending, nextId, nMut, nLists>>
    /\ UNCHANGED <<retryVars, agentVars, toolVars, chatVars, docVars, mcpVars, sessVars, regVars, schemaVars, cmdVars, pairVars, blockVars>>

\* ------------------------------------------------------------ gollm.Retry
NoErr == [kind |-> "none", status |-> 0, timeout |-> FALSE]
APIError(status) == [kind |-> "api", status |-> status, timeout |-> FALSE]
NetError(timeout) == [kind |-> "net", status |-> 0, timeout |-> timeout]
CtxErr == [kind |-> "ctx", status |-> 0, timeout |-> FALSE]
\* fmt.Errorf("operation failed after %d attempts: %w", ...)
ErrFinal(e) == [kind |-> "exhausted", status |-> e.status, timeout |-> e.timeout]

\* The errors the underlying operation is made to return.
OperationErrors == {APIError(503), APIError(400), APIError(408),
                    NetError(TRUE), NetError(FALSE)}

DefaultIsRetryableError(err) ==
    IF err.kind = "none" THEN FALSE
    ELSE IF err.kind = "api" THEN err.status \in {409, 429, 500, 502, 503, 504}
    ELSE IF err.kind = "net" /\ err.timeout THEN TRUE
    ELSE FALSE

\* AzureOpenAIChat.IsRetryableError
AzureIsRetryableError(err) == FALSE

IsRetryable(err) ==
    IF config.isRetryable = "azure" THEN AzureIsRetryableError(err)
    ELSE DefaultIsRetryableError(err)

\* The same loop with an off-by-one bound.
LoopCondOffByOne(a, maxAttempts) == a <= maxAttempts + 1

\* `attempt <= config.MaxAttempts`, the condition of Retry's loop.
LoopCond(a, maxAttempts) == a <= maxAttempts

\* time.Duration(rand.Float64() * float64(backoff) / 2): rand.Float64() is
\* in [0, 1), the conversion truncates.
JitterChoices(b) == {0} \cup {j \in 1..b : 2 * j < b}

Min(a, b) == IF a <= b THEN a ELSE b

\* The error is wrapped before it is returned.
RetryReturnWrapped(r, e) ==
    /\ rpc' = "returned"
    /\ retryRet' = [result |-> r, err |-> IF e.kind = "none" THEN e ELSE ErrFinal(e)]

RetryReturn(r, e) ==
    /\ rpc' = "returned"
    /\ retryRet' = [result |-> r, err |-> e]

\* The loop condition fails: errFinal after the loop.
RetryExhausted ==
    /\ rpc = "loop"
    /\ ~LoopCond(attempt, config.MaxAttempts)
    /\ RetryReturn("zero", ErrFinal(lastErr))
    /\ UNCHANGED <<config, ctxDone, attempt, backoff, waitTime, lastErr, calls, slept, opLog>>
    /\ UNCHANGED <<storeVars, agentVars, toolVars, chatVars, docVars, mcpVars, sessVars, regVars, schemaVars, cmdVars, pairVars, blockVars>>

\* result, err := operation(ctx), success.
RetryAttemptOk ==
    /\ rpc = "loop"
    /\ LoopCond(attempt, config.MaxAttempts)
    /\ calls' = calls + 1
    /\ opLog' = Append(opLog, NoErr)
    /\ RetryReturn("response", NoErr)
    /\ UNCHANGED <<config, ctxDone, attempt, backoff, waitTime, lastErr, slept>>
    /\ UNCHANGED <<storeVars, agentVars, toolVars, chatVars, docVars, mcpVars, sessVars, regVars, schemaVars, cmdVars, pairVars, blockVars>>

\* result, err := operation(ctx), failure: lastErr = err.
RetryAttemptFail(e) ==
    /\ rpc = "loop"
    /\ LoopCond(attempt, config.MaxAttempts)
    /\ calls' = calls + 1
    /\ lastErr' = e
    /\ opLog' = Append(opLog, e)
    /\ rpc' = "failed"
    /\ UNCHANGED <<config, ctxDone, attempt, backoff, waitTime, slept, retryRet>>
    /\ UNCHANGED <<storeVars, agentVars, toolVars, chatVars, docVars, mcpVars, sessVars, regVars, schemaVars, cmdVars, pairVars, blockVars>>

\* After a failed attempt: the context check, the retryability check, the
\* last-attempt check, and the computation of the wait.
RetryAfterFailure(j) ==
    /\ rpc = "failed"
    /\ IF ctxDone THEN
           /\ RetryReturn("zero", CtxErr)
           /\ UNCHANGED waitTime
       ELSE IF ~IsRetryable(lastErr) THEN
           /\ RetryReturn("zero", lastErr)
           /\ UNCHANGED waitTime
       ELSE IF attempt = config.MaxAttempts THEN
           /\ RetryReturn("zero", ErrFinal(lastErr))
           /\ UNCHANGED waitTime
       ELSE
           /\ j \in (IF config.Jitter THEN JitterChoices(backoff) ELSE {0})
           /\ waitTime' = backoff + j
           /\ rpc' = "waiting"
           /\ UNCHANGED retryRet
    /\ UNCHANGED <<config, ctxDone, attempt, backoff, lastErr, calls, slept, opLog>>
    /\ UNCHANGED <<storeVars, agentVars, toolVars, chatVars, docVars, mcpVars, sessVars, regVars, schemaVars, cmdVars, pairVars, blockVars>>

\* The wait is a plain sleep that does not look at the context.
RetryWaitSlept ==
    /\ rpc = "waiting"
    /\ slept' = slept + waitTime
    /\ backoff' = Min(backoff * config.BackoffFactor, config.MaxBackoff)
    /\ attempt' = attempt + 1
    /\ rpc' = "loop"
    /\ UNCHANGED <<config, ctxDone, waitTime, lastErr, calls, retryRet, opLog>>
    /\ UNCHANGED <<storeVars, agentVars, toolVars, chatVars, docVars, mcpVars, sessVars, regVars, schemaVars, cmdVars, pairVars, blockVars>>

\* select: <-time.After(waitTime); then the backoff grows and the loop
\* goes to its next attempt.
RetryWaitFinished ==
    /\ rpc = "waiting"
    /\ ~ctxDone \/ waitTime = 0
    /\ slept' = slept + waitTime
    /\ backoff' = Min(backoff * config.BackoffFactor, config.MaxBackoff)
    /\ attempt' = attempt + 1
    /\ rpc' = "loop"
    /\ UNCHANGED <<config, ctxDone, waitTime, lastErr, calls, retryRet, opLog>>
    /\ UNCHANGED <<storeVars, agentVars, toolVars, chatVars, docVars, mcpVars, sessVars, regVars, schemaVars, cmdVars, pairVars, blockVars>>

\* select: <-ctx.Done() while waiting.
RetryWaitCancelled ==
    /\ rpc = "waiting"
    /\ ctxDone
    /\ RetryReturn("zero", CtxErr)
    /\ UNCHANGED <<config, ctxDone, attempt, backoff, waitTime, lastErr, calls, slept, opLog>>
    /\ UNCHANGED <<storeVars, agentVars, toolVars, chatVars, docVars, mcpVars, sessVars, regVars, schemaVars, cmdVars, pairVars, blockVars>>

\* The caller cancels the context while Retry runs.
CancelCtx ==
    /\ rpc # "returned"
    /\ ~ctxDone
    /\ ctxDone' = TRUE
    /\ UNCHANGED <<config, rpc, attempt, backoff, waitTime, lastErr, calls, slept, retryRet, opLog>>
    /\ UNCHANGED <<storeVars, agentVars, toolVars, chatVars, docVars, mcpVars, sessVars, regVars, schemaVars, cmdVars, pairVars, blockVars>>

RetryNext ==
    \/ RetryExhausted
    \/ RetryAttemptOk
    \/ \E e \in OperationErrors : RetryAttemptFail(e)
    \/ \E j \in 0..MaxBackoffCfg : RetryAfterFailure(j)
    \/ RetryWaitFinished
    \/ RetryWaitCancelled
    \/ CancelCtx

RetryConfigs ==
    [MaxAttempts : (-1)..MaxAttemptsCfg,
     InitialBackoff : {1, 3},
     MaxBackoff : {2, MaxBackoffCfg},
     BackoffFactor : {1, 2},
     Jitter : BOOLEAN,
     isRetryable : {"default", "azure"}]

\* DefaultRetryConfig, in units of 200 ms, with MaxAttempts scaled down.
DefaultRetryConfig ==
    [MaxAttempts |-> MaxAttemptsCfg, InitialBackoff |-> 1, MaxBackoff |-> MaxBackoffCfg,
     BackoffFactor |-> 2, Jitter |-> TRUE, isRetryable |-> "default"]

\* Retry has just been called with configuration c.
InitRetryWith(c) ==
    /\ config = c
    /\ ctxDone = FALSE
    /\ rpc = "loop"
    /\ attempt = 1
    /\ backoff = c.InitialBackoff
    /\ waitTime = 0
    /\ lastErr = NoErr
    /\ calls = 0
    /\ slept = 0
    /\ retryRet = [result |-> "zero", err |-> NoErr]
    /\ opLog = <<>>

\* ---------------------------------------------------- the reason-act loop
\* The tool catalog: Tools is a map from name to tool.
Catalog == {"kubectl", "bash"}

\* The tool names the LLM asks for; "nosuch" is in no catalog.
LLMToolNames == {"kubectl", "nosuch"}

NoTool == "nil"

\* A lookup that falls back to a default tool for an unknown name.
LookupWithDefault(name) == IF name \in Catalog THEN name ELSE "bash"

\* Tools.Lookup: t[name], nil for a name the map does not hold.
Lookup(name) == IF name \in Catalog THEN name ELSE NoTool

Msg(type, id, name) == [type |-> type, id |-> id, name |-> name]

\* The function calls of a response, with the ids the provider gives them.
RECURSIVE CallsOf(_, _)
CallsOf(names, firstId) ==
    IF names = <<>> THEN <<>>
    ELSE <<[id |-> firstId, name |-> Head(names)]>> \o CallsOf(Tail(names), firstId + 1)

NameSeqs(n) == UNION {[1..k -> LLMToolNames] : k \in 0..n}

\* No message is recorded for the request.
RequestMessagesNone(call) == <<>>

\* The session message recorded for a function call before it is dispatched.
RequestMessages(call) == <<Msg("tool-call-request", call.id, call.name)>>

\* The FunctionCallResult of one dispatched call.
ResultOf(call) ==
    IF Lookup(call.name) = NoTool
    THEN [kind |-> "result", id |-> call.id, name |-> call.name, error |-> "tool not found"]
    ELSE [kind |-> "result", id |-> call.id, name |-> call.name, error |-> ""]

\* A counter that is not decremented.
DecrementNot(n) == n

\* The iteration counter after one iteration.
Decrement(n) == n - 1

\* The user's query as content of a Send.
Query == [kind |-> "text", id |-> 0, name |-> "", error |-> ""]

RECURSIVE Reverse(_)
Reverse(seq) == IF seq = <<>> THEN <<>> ELSE Append(Reverse(Tail(seq)), Head(seq))

\* The calls are dispatched last first.
DispatchOrderReversed(fcalls) == Reverse(fcalls)

\* Step 4: the function-call parts are collected in order.
DispatchOrder(fcalls) == fcalls

\* Every response leads to tool execution.
AfterResponseAlwaysTools(fcalls) == "ExecutingTools"

\* Step 5: with no function-call parts the run terminates.
AfterResponse(fcalls) == IF fcalls = <<>> THEN "Done" ELSE "ExecutingTools"

Terminal == aState \in {"Done", "Aborted"}

\* Steps 2-5: (SetFunctionDefinitions on the first iteration,) Send with
\* the prepared content; the first candidate's text is appended as an
\* agent-text message and block, its function calls are collected; with no
\* function call the run is done.
AgentSend(text, names) ==
    /\ aState = "AwaitingLLM"
    /\ fnDefsSet' = TRUE
    /\ sends' = Append(sends, content)
    /\ LET fcalls == CallsOf(names, nextCallId)
           textMsgs == IF text THEN <<Msg("text", 0, "agent")>> ELSE <<>>
           textBlocks == IF text THEN <<"AgentText">> ELSE <<>>
       IN /\ sessionMsgs' = sessionMsgs \o textMsgs
          /\ blocks' = blocks \o textBlocks
          /\ pendingCalls' = DispatchOrder(fcalls)
          /\ nextCallId' = nextCallId + Len(fcalls)
          /\ aState' = AfterResponse(fcalls)
          /\ exitCode' = IF aState' = "Done" THEN 0 ELSE exitCode
    /\ content' = <<>>
    /\ UNCHANGED <<budget, iterLeft, executed>>
    /\ UNCHANGED <<storeVars, retryVars, toolVars, chatVars, docVars, mcpVars, sessVars, regVars, schemaVars, cmdVars, pairVars, blockVars>>

\* Step 6, one function call: look the tool up; if it is missing,
\* synthesize a `tool not found` result, otherwise invoke the tool; append
\* the FunctionCallResult message and keep the result for the next Send.
AgentDispatch ==
    /\ aState = "ExecutingTools"
    /\ pendingCalls # <<>>
    /\ LET call == Head(pendingCalls)
           tool == Lookup(call.name)
           result == ResultOf(call)
       IN /\ executed' = IF tool = NoTool THEN executed ELSE Append(executed, call.id)
          /\ sessionMsgs' = sessionMsgs \o RequestMessages(call)
                              \o <<Msg("tool-call-result", result.id, result.name)>>
          /\ content' = Append(content, result)
    /\ pendingCalls' = Tail(pendingCalls)
    /\ UNCHANGED <<aState, budget, iterLeft, sends, blocks, exitCode, fnDefsSet, nextCallId>>
    /\ UNCHANGED <<storeVars, retryVars, toolVars, chatVars, docVars, mcpVars, sessVars, regVars, schemaVars, cmdVars, pairVars, blockVars>>

\* Step 7: decrement the iteration counter; at zero emit the
\* `iteration budget exhausted` Error block and terminate.
AgentIterationEnd ==
    /\ aState = "ExecutingTools"
    /\ pendingCalls = <<>>
    /\ iterLeft' = Decrement(iterLeft)
    /\ IF iterLeft' = 0
       THEN /\ aState' = "Aborted"
            /\ blocks' = Append(blocks, "Error: iteration budget exhausted")
            /\ exitCode' = 0
       ELSE /\ aState' = "AwaitingLLM"
            /\ UNCHANGED <<blocks, exitCode>>
    /\ UNCHANGED <<budget, sessionMsgs, content, sends, pendingCalls, executed,
                   fnDefsSet, nextCallId>>
    /\ UNCHANGED <<storeVars, retryVars, toolVars, chatVars, docVars, mcpVars, sessVars, regVars, schemaVars, cmdVars, pairVars, blockVars>>

\* The run's context is cancelled.
AgentCancel ==
    /\ ~Terminal
    /\ aState' = "Aborted"
    /\ UNCHANGED <<budget, iterLeft, sessionMsgs, content, sends, pendingCalls,
                   executed, blocks, exitCode, fnDefsSet, nextCallId>>
    /\ UNCHANGED <<storeVars, retryVars, toolVars, chatVars, docVars, mcpVars, sessVars, regVars, schemaVars, cmdVars, pairVars, blockVars>>

\* Step 1 is done: the user's query is in the session and is the content
\* of the first Send.
InitAgentWith(n) ==
    /\ aState = "AwaitingLLM"
    /\ budget = n
    /\ iterLeft = n
    /\ sessionMsgs = <<Msg("text", 0, "user")>>
    /\ content = <<Query>>
    /\ sends = <<>>
    /\ pendingCalls = <<>>
    /\ executed = <<>>
    /\ blocks = <<>>
    /\ exitCode = -1
    /\ fnDefsSet = FALSE
    /\ nextCallId = 1

AgentNext ==
    \/ \E text \in BOOLEAN, names \in NameSeqs(MaxCalls) : AgentSend(text, names)
    \/ AgentDispatch
    \/ AgentIterationEnd
    \/ AgentCancel

\* The provider stub of the budget scenario: every response is exactly one
\* function call, for a tool of the catalog.
AgentStubNext ==
    \/ \E text \in BOOLEAN, name \in Catalog : AgentSend(text, <<name>>)
    \/ AgentDispatch
    \/ AgentIterationEnd
    \/ AgentCancel

\* ------------------------------------------- BashTool.Run, executeCommand
\* A command line is a sequence of pieces of text; its string is their
\* concatenation.
CmdTokens == {"kubectl", " ", "edit", "port-forward", "get", "-f"}

Commands == UNION {[1..k -> CmdTokens] : k \in 0..MaxCmdLen}

KubectlEdit == <<"kubectl", " ", "edit">>
KubectlPortForward == <<"kubectl", " ", "port-forward">>

\* The text is looked for at the start of the command only.
ContainsAtStart(str, substr) ==
    Len(substr) <= Len(str) /\ SubSeq(str, 1, Len(substr)) = substr

\* strings.Contains
Contains(str, substr) ==
    \E i \in 1..(Len(str) + 1) :
        /\ i + Len(substr) - 1 <= Len(str)
        /\ SubSeq(str, i, i + Len(substr) - 1) = substr

ErrInteractive == "interactive mode not supported for kubectl, please use non-interactive commands"
ErrPortForward == "port-forwarding is not allowed because assistant is running in an unattended mode, please try some other alternative"
ErrInterrupted == "streaming interrupted by user"

ExecResult(error, code) == [nil |-> FALSE, Error |-> error, ExitCode |-> code]
NilResult == [nil |-> TRUE, Error |-> "", ExitCode |-> 0]

\* The args maps an invocation can carry.
ToolArgSets ==
    {[hasCommand |-> TRUE, command |-> c] : c \in Commands}
        \cup {[hasCommand |-> FALSE, command |-> <<>>]}

\* cmd.Args of exec.CommandContext(ctx, bashBin, "-c", command)
CmdArgs(command) == << <<"/bin/bash">>, <<"-c">>, command >>

\* executeCommand: some element of cmd.Args is "-f" or "--follow".
IsStreaming(args) ==
    \E i \in 1..Len(args) : args[i] = <<"-f">> \/ args[i] = <<"--follow">>

ToolReturn(result, err) ==
    /\ tpc' = "returned"
    /\ toolRet' = [result |-> result, err |-> err]

mainVars == <<process, sigCh>>

execVars == <<child, outOpen, errOpen, outDone, errDone, gotOut, gotErr, sigint, signalled>>

\* BashTool.Run up to the call of executeCommand.
ToolRun(args) ==
    /\ process = "running"
    /\ tpc = "idle"
    /\ toolArgs' = args
    /\ IF ~args.hasCommand THEN
           \* args["command"].(string) on a missing key: a run-time panic
           /\ tpc' = "panicked"
           /\ UNCHANGED toolRet
       ELSE IF Contains(args.command, KubectlEdit) THEN
           ToolReturn(ExecResult(ErrInteractive, 0), "")
       ELSE IF Contains(args.command, KubectlPortForward) THEN
           ToolReturn(ExecResult(ErrPortForward, 0), "")
       ELSE
           /\ tpc' = IF IsStreaming(CmdArgs(args.command)) THEN "stream_start" ELSE "run"
           /\ UNCHANGED toolRet
    /\ UNCHANGED <<spawned, execVars>>
    /\ UNCHANGED mainVars
    /\ UNCHANGED <<storeVars, retryVars, agentVars, chatVars, docVars, mcpVars, sessVars, regVars, schemaVars, cmdVars, pairVars, blockVars>>

\* executeCommand, not streaming: cmd.Run() with both streams buffered.
ExecRun(outcome) ==
    /\ process = "running"
    /\ tpc = "run"
    /\ outcome \in {"exit0", "exitError", "startError"}
    /\ IF outcome = "startError"
       THEN /\ ToolReturn(NilResult, "exec error")
            /\ UNCHANGED <<spawned, child>>
       ELSE /\ ToolReturn(ExecResult("", IF outcome = "exit0" THEN 0 ELSE 1), "")
            /\ spawned' = spawned + 1
            /\ child' = "reaped"
    /\ UNCHANGED <<toolArgs, outOpen, errOpen, outDone, errDone, gotOut, gotErr, sigint, signalled>>
    /\ UNCHANGED mainVars
    /\ UNCHANGED <<storeVars, retryVars, agentVars, chatVars, docVars, mcpVars, sessVars, regVars, schemaVars, cmdVars, pairVars, blockVars>>

\* executeCommand, streaming: the pipes, cmd.Start(), signal.Notify and the
\* two reader goroutines.
ExecStreamStart(ok) ==
    /\ process = "running"
    /\ tpc = "stream_start"
    /\ IF ok
       THEN /\ tpc' = "select"
            /\ spawned' = spawned + 1
            /\ child' = "running"
            /\ outOpen' = TRUE
            /\ errOpen' = TRUE
            /\ UNCHANGED toolRet
       ELSE /\ ToolReturn(ExecResult("exec error", 0), "exec error")
            /\ UNCHANGED <<spawned, child, outOpen, errOpen>>
    /\ UNCHANGED <<toolArgs, outDone, errDone, gotOut, gotErr, sigint, signalled>>
    /\ UNCHANGED mainVars
    /\ UNCHANGED <<storeVars, retryVars, agentVars, chatVars, docVars, mcpVars, sessVars, regVars, schemaVars, cmdVars, pairVars, blockVars>>

\* The child closes its stdout, or exits.
ChildClosesStdout ==
    /\ child = "running" /\ outOpen
    /\ outOpen' = FALSE
    /\ UNCHANGED <<tpc, toolArgs, toolRet, spawned, child, errOpen, outDone, errDone,
                   gotOut, gotErr, sigint, signalled>>
    /\ UNCHANGED mainVars
    /\ UNCHANGED <<storeVars, retryVars, agentVars, chatVars, docVars, mcpVars, sessVars, regVars, schemaVars, cmdVars, pairVars, blockVars>>

ChildClosesStderr ==
    /\ child = "running" /\ errOpen
    /\ errOpen' = FALSE
    /\ UNCHANGED <<tpc, toolArgs, toolRet, spawned, child, outOpen, outDone, errDone,
                   gotOut, gotErr, sigint, signalled>>
    /\ UNCHANGED mainVars
    /\ UNCHANGED <<storeVars, retryVars, agentVars, chatVars, docVars, mcpVars, sessVars, regVars, schemaVars, cmdVars, pairVars, blockVars>>

ChildExits ==
    /\ child = "running"
    /\ child' = "exited"
    /\ outOpen' = FALSE
    /\ errOpen' = FALSE
    /\ UNCHANGED <<tpc, toolArgs, toolRet, spawned, outDone, errDone, gotOut, gotErr,
                   sigint, signalled>>
    /\ UNCHANGED mainVars
    /\ UNCHANGED <<storeVars, retryVars, agentVars, chatVars, docVars, mcpVars, sessVars, regVars, schemaVars, cmdVars, pairVars, blockVars>>

\* The stdout reader: scanner.Scan() ends at EOF, then stdoutDone <- {}.
StdoutReaderDone ==
    /\ process = "running"
    /\ tpc \in {"select", "drain"}
    /\ ~outOpen /\ ~outDone /\ ~gotOut
    /\ outDone' = TRUE
    /\ UNCHANGED <<tpc, toolArgs, toolRet, spawned, child, outOpen, errOpen, errDone,
                   gotOut, gotErr, sigint, signalled>>
    /\ UNCHANGED mainVars
    /\ UNCHANGED <<storeVars, retryVars, agentVars, chatVars, docVars, mcpVars, sessVars, regVars, schemaVars, cmdVars, pairVars, blockVars>>

StderrReaderDone ==
    /\ process = "running"
    /\ tpc \in {"select", "drain"}
    /\ ~errOpen /\ ~errDone /\ ~gotErr
    /\ errDone' = TRUE
    /\ UNCHANGED <<tpc, toolArgs, toolRet, spawned, child, outOpen, errOpen, outDone,
                   gotOut, gotErr, sigint, signalled>>
    /\ UNCHANGED mainVars
    /\ UNCHANGED <<storeVars, retryVars, agentVars, chatVars, docVars, mcpVars, sessVars, regVars, schemaVars, cmdVars, pairVars, blockVars>>

\* The user presses CTRL-C while the command streams: the Go runtime hands
\* the signal to every channel registered with signal.Notify, the
\* interrupt channel of executeCommand and the sigCh of main.
UserInterrupt ==
    /\ tpc = "select"
    /\ process = "running"
    /\ ~sigint
    /\ sigint' = TRUE
    /\ sigCh' = TRUE
    /\ UNCHANGED <<tpc, toolArgs, toolRet, spawned, child, outOpen, errOpen, outDone,
                   errDone, gotOut, gotErr, signalled, process>>
    /\ UNCHANGED <<storeVars, retryVars, agentVars, chatVars, docVars, mcpVars, sessVars, regVars, schemaVars, cmdVars, pairVars, blockVars>>

\* select, case <-interrupt: signal the child, set results.Error, then
\* wait for both readers.
SelectInterrupt ==
    /\ process = "running"
    /\ tpc = "select"
    /\ sigint
    /\ sigint' = FALSE
    /\ signalled' = TRUE
    /\ tpc' = "drain"
    /\ UNCHANGED <<toolArgs, toolRet, spawned, child, outOpen, errOpen, outDone, errDone,
                   gotOut, gotErr>>
    /\ UNCHANGED mainVars
    /\ UNCHANGED <<storeVars, retryVars, agentVars, chatVars, docVars, mcpVars, sessVars, regVars, schemaVars, cmdVars, pairVars, blockVars>>

\* select, case <-stdoutDone or <-stderrDone: then wait for the other reader.
SelectReaderDone ==
    /\ process = "running"
    /\ tpc = "select"
    /\ \/ outDone /\ gotOut' = TRUE /\ outDone' = FALSE /\ UNCHANGED <<gotErr, errDone>>
       \/ errDone /\ gotErr' = TRUE /\ errDone' = FALSE /\ UNCHANGED <<gotOut, outDone>>
    /\ tpc' = "drain"
    /\ UNCHANGED <<toolArgs, toolRet, spawned, child, outOpen, errOpen, sigint, signalled>>
    /\ UNCHANGED mainVars
    /\ UNCHANGED <<storeVars, retryVars, agentVars, chatVars, docVars, mcpVars, sessVars, regVars, schemaVars, cmdVars, pairVars, blockVars>>

\* <-stdoutDone / <-stderrDone after the select.
DrainReader ==
    /\ process = "running"
    /\ tpc = "drain"
    /\ \/ outDone /\ gotOut' = TRUE /\ outDone' = FALSE /\ UNCHANGED <<gotErr, errDone>>
       \/ errDone /\ gotOut /\ gotErr' = TRUE /\ errDone' = FALSE /\ UNCHANGED <<gotOut, outDone>>
    /\ UNCHANGED <<tpc, toolArgs, toolRet, spawned, child, outOpen, errOpen, sigint, signalled>>
    /\ UNCHANGED mainVars
    /\ UNCHANGED <<storeVars, retryVars, agentVars, chatVars, docVars, mcpVars, sessVars, regVars, schemaVars, cmdVars, pairVars, blockVars>>

\* Both readers are done: after an interrupt return at once, otherwise
\* cmd.Wait() and return.
ExecStreamReturn ==
    /\ process = "running"
    /\ tpc = "drain"
    /\ gotOut /\ gotErr
    /\ IF signalled
       THEN /\ ToolReturn(ExecResult(ErrInterrupted, 0), "")
            /\ UNCHANGED child
       ELSE /\ child = "exited"
            /\ child' = "reaped"
            /\ ToolReturn(ExecResult("", 0), "")
    /\ UNCHANGED <<toolArgs, spawned, outOpen, errOpen, outDone, errDone, gotOut, gotErr,
                   sigint, signalled>>
    /\ UNCHANGED mainVars
    /\ UNCHANGED <<storeVars, retryVars, agentVars, chatVars, docVars, mcpVars, sessVars, regVars, schemaVars, cmdVars, pairVars, blockVars>>

\* The child reacts to the forwarded interrupt by exiting.
\* (ChildExits covers it; a child may also ignore the signal.)

InitTool ==
    /\ tpc = "idle"
    /\ toolArgs = [hasCommand |-> FALSE, command |-> <<>>]
    /\ toolRet = [result |-> NilResult, err |-> ""]
    /\ spawned = 0
    /\ child = "none"
    /\ outOpen = FALSE
    /\ errOpen = FALSE
    /\ outDone = FALSE
    /\ errDone = FALSE
    /\ gotOut = FALSE
    /\ gotErr = FALSE
    /\ sigint = FALSE
    /\ signalled = FALSE
    /\ process = "running"
    /\ sigCh = FALSE

\* main's goroutine: sig := <-sigCh, then os.Exit(0).
MainSignalExit ==
    /\ process = "running"
    /\ sigCh
    /\ sigCh' = FALSE
    /\ process' = "exited"
    /\ UNCHANGED <<tpc, toolArgs, toolRet, spawned, execVars>>
    /\ UNCHANGED <<storeVars, retryVars, agentVars, chatVars, docVars, mcpVars, sessVars, regVars, schemaVars, cmdVars, pairVars, blockVars>>

ToolNext ==
    \/ \E args \in ToolArgSets : ToolRun(args)
    \/ \E outcome \in {"exit0", "exitError", "startError"} : ExecRun(outcome)
    \/ \E ok \in BOOLEAN : ExecStreamStart(ok)
    \/ ChildClosesStdout
    \/ ChildClosesStderr
    \/ ChildExits
    \/ StdoutReaderDone
    \/ StderrReaderDone
    \/ UserInterrupt
    \/ SelectInterrupt
    \/ SelectReaderDone
    \/ DrainReader
    \/ ExecStreamReturn
    \/ MainSignalExit

\* ------------------------------------------ provider chats and adapters
\* The function definitions a caller installs: a name and the type of the
\* parameter schema.
FunctionDefinitions ==
    {[name |-> "kubectl", ptype |-> "object"],
     [name |-> "bash", ptype |-> "object"],
     [name |-> "scale", ptype |-> "integer"]}

DefinitionLists == UNION {[1..k -> FunctionDefinitions] : k \in 0..MaxDefs}

\* toGeminiSchema: only object and string schemas are handled.
ToGeminiSchema(def) ==
    IF def.ptype = "object" THEN [err |-> FALSE, Type |-> "TypeObject"]
    ELSE IF def.ptype = "string" THEN [err |-> FALSE, Type |-> "TypeString"]
    ELSE [err |-> TRUE, Type |-> ""]

\* The genai.FunctionDeclaration made of a definition.
GeminiDeclaration(def) == [Name |-> def.name, Parameters |-> ToGeminiSchema(def).Type]

\* fnDefToAzureOpenAITool: the parameters are always sent as an object.
AzureTool(def) == [Name |-> def.name, Parameters |-> "object"]

\* c.model.Tools = append(c.model.Tools, &genai.Tool{...})
GeminiTools(tools, tool) == Append(tools, tool)

\* c.tools = tools
AzureTools(tools, new) == new

RECURSIVE Flatten(_)
Flatten(groups) == IF groups = <<>> THEN <<>> ELSE Head(groups) \o Flatten(Tail(groups))

\* The names of the functions that a request of the chat declares to the
\* provider: every declaration of every genai.Tool for Gemini, the
\* Tools option for Azure.
SentCatalog ==
    LET decls == IF provider = "gemini" THEN Flatten(chatTools) ELSE chatTools
    IN [i \in 1..Len(decls) |-> decls[i].Name]

\* GeminiChat.SetFunctionDefinitions and AzureOpenAIChat.SetFunctionDefinitions
\* (retryChat.SetFunctionDefinitions hands the call to the chat it wraps).
SetFunctionDefinitions(defs) ==
    /\ Len(setLog) < MaxSetCalls
    /\ cpc = "idle"
    /\ IF provider = "gemini" THEN
           IF \E i \in 1..Len(defs) : ToGeminiSchema(defs[i]).err
           THEN /\ setLog' = Append(setLog, [defs |-> defs, err |-> TRUE])
                /\ UNCHANGED chatTools
           ELSE /\ chatTools' = GeminiTools(chatTools,
                                    [i \in 1..Len(defs) |-> GeminiDeclaration(defs[i])])
                /\ setLog' = Append(setLog, [defs |-> defs, err |-> FALSE])
       ELSE
           /\ chatTools' = AzureTools(chatTools, [i \in 1..Len(defs) |-> AzureTool(defs[i])])
           /\ setLog' = Append(setLog, [defs |-> defs, err |-> FALSE])
    /\ UNCHANGED <<provider, chatHistory, requests, sendArgs, sendRet, adapterRet, cpc>>
    /\ UNCHANGED <<storeVars, retryVars, agentVars, toolVars, docVars, mcpVars, sessVars, regVars, schemaVars, cmdVars, pairVars, blockVars>>

\* The content items a caller passes to Send, by their Go type.
ContentTypes == {"string", "FunctionCallResult", "int"}

ContentLists == UNION {[1..k -> ContentTypes] : k \in 0..MaxContents}

\* Every content type is taken for a FunctionCallResult.
ContentCaseAny(type) == IF type = "string" THEN "string" ELSE "FunctionCallResult"

\* The case of Send's type switch that a content item takes.
ContentCase(type) ==
    IF type \in {"string", "FunctionCallResult"} THEN type ELSE "default"

\* The messages that the loop over contents appends to the history, and
\* the type at which it stops, if any.
RECURSIVE AppendContents(_, _)
AppendContents(history, contents) ==
    IF contents = <<>> THEN [history |-> history, unsupported |-> ""]
    ELSE IF ContentCase(Head(contents)) = "default"
         THEN [history |-> history, unsupported |-> Head(contents)]
         ELSE AppendContents(Append(history, "user"), Tail(contents))

\* The tool calls a choice can carry: nil, a function tool call whose
\* Function is complete, lacks its Arguments, lacks its Name or has
\* Arguments that are not a JSON object, or a tool call of another type.
ToolCallShapes == {"nil", "function", "function-no-arguments", "function-no-name",
                   "function-bad-json", "other-type"}

ToolCallLists == UNION {[1..k -> ToolCallShapes] : k \in 0..MaxToolCalls}

\* The choices of a response: none, one without a message, one with.
ChoiceLists ==
    {<<>>} \cup {<<[message |-> FALSE, toolCalls |-> <<>>]>>}
           \cup {<<[message |-> TRUE, toolCalls |-> t]>> : t \in ToolCallLists}

NoResponse == [nil |-> TRUE, choices |-> <<>>]
NoSendErr == [kind |-> "", type |-> ""]

\* AzureOpenAIChat.Send up to its request: the contents go to the history
\* one by one and an unsupported one ends the call; then the request is
\* made with the history and the tools.
AzureSend(contents) ==
    /\ provider = "azure"
    /\ cpc = "idle"
    /\ sendArgs' = contents
    /\ LET r == AppendContents(chatHistory, contents)
       IN /\ chatHistory' = r.history
          /\ IF r.unsupported # "" THEN
                 /\ sendRet' = [resp |-> NoResponse,
                                err |-> [kind |-> "unsupported content type", type |-> r.unsupported]]
                 /\ cpc' = "returned"
                 /\ UNCHANGED requests
             ELSE
                 /\ requests' = Append(requests, [messages |-> r.history, tools |-> SentCatalog])
                 /\ cpc' = "requesting"
                 /\ UNCHANGED sendRet
    /\ UNCHANGED <<provider, chatTools, setLog, adapterRet>>
    /\ UNCHANGED <<storeVars, retryVars, agentVars, toolVars, docVars, mcpVars, sessVars, regVars, schemaVars, cmdVars, pairVars, blockVars>>

\* AzureOpenAIChat.Send from the answer of GetChatCompletions on.
AzureSendReturn(apiFails, choices) ==
    /\ cpc = "requesting"
    /\ sendRet' =
          IF apiFails THEN [resp |-> NoResponse, err |-> [kind |-> "api", type |-> ""]]
          ELSE IF Len(choices) = 0
          THEN [resp |-> NoResponse, err |-> [kind |-> "no response", type |-> ""]]
          ELSE [resp |-> [nil |-> FALSE, choices |-> choices], err |-> NoSendErr]
    /\ cpc' = "returned"
    /\ UNCHANGED <<provider, chatTools, setLog, chatHistory, requests, sendArgs, adapterRet>>
    /\ UNCHANGED <<storeVars, retryVars, agentVars, toolVars, docVars, mcpVars, sessVars, regVars, schemaVars, cmdVars, pairVars, blockVars>>

\* GeminiChat.SendMessage: the genai chat session sends the parts with the
\* Tools of the model it was started from (the session keeps its own
\* history, which is not modelled).
GeminiSendMessage(apiFails) ==
    /\ provider = "gemini"
    /\ cpc = "idle"
    /\ sendArgs' = <<"string">>
    /\ requests' = Append(requests, [messages |-> <<"user">>, tools |-> SentCatalog])
    /\ sendRet' = IF apiFails
                  THEN [resp |-> NoResponse, err |-> [kind |-> "api", type |-> ""]]
                  ELSE [resp |-> [nil |-> FALSE, choices |-> <<>>], err |-> NoSendErr]
    /\ cpc' = "returned"
    /\ UNCHANGED <<provider, chatTools, setLog, chatHistory, adapterRet>>
    /\ UNCHANGED <<storeVars, retryVars, agentVars, toolVars, docVars, mcpVars, sessVars, regVars, schemaVars, cmdVars, pairVars, blockVars>>

\* AzureOpenAIPart.AsFunctionCalls on the part made of one tool call.
AzureAsFunctionCalls(tool) ==
    IF tool = "function-no-arguments" THEN "panic"     \* *p.functionCall.Arguments
    ELSE IF tool = "function-bad-json" THEN "no call"  \* return nil, false
    ELSE IF tool = "function-no-name" THEN "panic"     \* *p.functionCall.Name
    ELSE "call"

\* AzureOpenAICandidate.Parts, then AsFunctionCalls on every part.
RECURSIVE AzureToolCalls(_)
AzureToolCalls(tools) ==
    IF tools = <<>> THEN "ok"
    ELSE IF Head(tools) = "nil" THEN AzureToolCalls(Tail(tools))
    ELSE IF Head(tools) = "other-type" THEN "panic"    \* tool.(*...FunctionToolCall)
    ELSE IF AzureAsFunctionCalls(Head(tools)) = "panic" THEN "panic"
    ELSE AzureToolCalls(Tail(tools))

AzureParts(choice) ==
    IF ~choice.message THEN "panic"                    \* r.candidate.Message.ToolCalls
    ELSE AzureToolCalls(choice.toolCalls)

\* The caller reads the response Send returned: Candidates(), the first
\* candidate's Parts(), AsText() and AsFunctionCalls() of each part.
AzureReadResponse ==
    /\ provider = "azure"
    /\ cpc = "returned"
    /\ ~sendRet.resp.nil
    /\ adapterRet.outcome = "none"
    /\ adapterRet' = [fn |-> "Parts", shape |-> sendRet.resp.choices,
                      outcome |-> AzureParts(sendRet.resp.choices[1])]
    /\ UNCHANGED <<provider, chatTools, setLog, chatHistory, requests, sendArgs, sendRet, cpc>>
    /\ UNCHANGED <<storeVars, retryVars, agentVars, toolVars, docVars, mcpVars, sessVars, regVars, schemaVars, cmdVars, pairVars, blockVars>>

\* AzureOpenAIClient.GenerateCompletion on the response of the provider:
\* `len(resp.Choices) > 0 || resp.Choices[0].Message == nil || ...`.
AzureCompletion(choices) ==
    IF Len(choices) > 0 THEN "error"
    ELSE "panic"                                       \* resp.Choices[0]

\* The candidates of a Gemini response: none, one without content, one
\* whose parts are text, one with a part that is not text.
CandidateLists ==
    {<<>>, <<[content |-> FALSE, parts |-> <<>>]>>,
     <<[content |-> TRUE, parts |-> <<"text">>]>>,
     <<[content |-> TRUE, parts |-> <<"text", "functionCall">>]>>}

\* GeminiClient.GenerateCompletion on the response of the provider.
GeminiCompletion(candidates) ==
    IF Len(candidates) = 0 THEN "panic"                \* geminiResponse.Candidates[0]
    ELSE IF ~candidates[1].content THEN "panic"        \* candidate.Content.Parts
    ELSE IF \E i \in 1..Len(candidates[1].parts) : candidates[1].parts[i] # "text"
    THEN "error"
    ELSE "ok"

GenerateCompletion(shape) ==
    /\ cpc = "idle"
    /\ adapterRet.outcome = "none"
    /\ shape \in (IF provider = "gemini" THEN CandidateLists ELSE ChoiceLists)
    /\ adapterRet' = [fn |-> "GenerateCompletion", shape |-> shape,
                      outcome |-> IF provider = "gemini" THEN GeminiCompletion(shape)
                                  ELSE AzureCompletion(shape)]
    /\ UNCHANGED <<provider, chatTools, setLog, chatHistory, requests, sendArgs, sendRet, cpc>>
    /\ UNCHANGED <<storeVars, retryVars, agentVars, toolVars, docVars, mcpVars, sessVars, regVars, schemaVars, cmdVars, pairVars, blockVars>>

\* A chat just started by StartChat.
InitChatWith(p) ==
    /\ provider = p
    /\ chatTools = <<>>
    /\ setLog = <<>>
    /\ chatHistory = <<"system">>
    /\ requests = <<>>
    /\ sendArgs = <<>>
    /\ sendRet = [resp |-> NoResponse, err |-> NoSendErr]
    /\ adapterRet = [fn |-> "", shape |-> <<>>, outcome |-> "none"]
    /\ cpc = "idle"

ChatToolsNext ==
    \/ \E defs \in DefinitionLists : SetFunctionDefinitions(defs)
    \/ \E contents \in {<<"string">>} : AzureSend(contents)
    \/ \E apiFails \in BOOLEAN : GeminiSendMessage(apiFails)

ChatNext ==
    \/ \E contents \in ContentLists : AzureSend(contents)
    \/ \E apiFails \in BOOLEAN, choices \in ChoiceLists : AzureSendReturn(apiFails, choices)
    \/ AzureReadResponse
    \/ \E shape \in ChoiceLists \cup CandidateLists : GenerateCompletion(shape)

\* ------------------------------------------------------------ ui.Document
\* goroutines that add and change blocks
Tasks == {"t1", "t2"}

\* AddSubscription: the list is copied without the closed subscriptions
\* and the new subscription goes to its end, all under d.mutex.
RECURSIVE OpenOnly(_, _)
OpenOnly(subs, closedSet) ==
    IF subs = <<>> THEN <<>>
    ELSE IF Head(subs) \in closedSet THEN OpenOnly(Tail(subs), closedSet)
    ELSE <<Head(subs)>> \o OpenOnly(Tail(subs), closedSet)

AddSubscription ==
    /\ nextSubscriptionID <= MaxSubscriptions
    /\ subscriptions' = Append(OpenOnly(subscriptions, closed), nextSubscriptionID)
    /\ nextSubscriptionID' = nextSubscriptionID + 1
    /\ UNCHANGED <<docBlocks, nextBlockID, closed, closedAt, applied, delivered, dpc, dchange, dsnap, dnext>>
    /\ UNCHANGED <<storeVars, retryVars, agentVars, toolVars, chatVars, mcpVars, sessVars, regVars, schemaVars, cmdVars, pairVars, blockVars>>

\* subscription.Close: s.subscriber = nil under d.mutex.
SubscriptionClose(s) ==
    /\ s \in 1..(nextSubscriptionID - 1)
    /\ s \notin closed
    /\ closed' = closed \cup {s}
    /\ closedAt' = [closedAt EXCEPT ![s] = Len(applied)]
    /\ UNCHANGED <<docBlocks, nextBlockID, subscriptions, nextSubscriptionID, applied,
                   delivered, dpc, dchange, dsnap, dnext>>
    /\ UNCHANGED <<storeVars, retryVars, agentVars, toolVars, chatVars, mcpVars, sessVars, regVars, schemaVars, cmdVars, pairVars, blockVars>>

\* Document.AddBlock up to d.mutex.Unlock(): the block joins d.blocks and
\* gets its id.
AddBlock(t) ==
    /\ dpc[t] = "idle"
    /\ Len(applied) < MaxChanges
    /\ docBlocks' = Append(docBlocks, nextBlockID)
    /\ nextBlockID' = nextBlockID + 1
    /\ applied' = Append(applied, [kind |-> "add", block |-> nextBlockID])
    /\ dchange' = [dchange EXCEPT ![t] = Len(applied) + 1]
    /\ dpc' = [dpc EXCEPT ![t] = "send"]
    /\ UNCHANGED <<subscriptions, nextSubscriptionID, closed, closedAt, delivered, dsnap, dnext>>
    /\ UNCHANGED <<storeVars, retryVars, agentVars, toolVars, chatVars, mcpVars, sessVars, regVars, schemaVars, cmdVars, pairVars, blockVars>>

\* A setter of a block of the document (SetText, AppendText, SetResult,
\* ...): the field is written, then b.doc.blockChanged(b) is called.
SetText(t, b) ==
    /\ dpc[t] = "idle"
    /\ Len(applied) < MaxChanges
    /\ b \in 1..Len(docBlocks)
    /\ applied' = Append(applied, [kind |-> "change", block |-> docBlocks[b]])
    /\ dchange' = [dchange EXCEPT ![t] = Len(applied) + 1]
    /\ dpc' = [dpc EXCEPT ![t] = "send"]
    /\ UNCHANGED <<docBlocks, nextBlockID, subscriptions, nextSubscriptionID, closed, closedAt,
                   delivered, dsnap, dnext>>
    /\ UNCHANGED <<storeVars, retryVars, agentVars, toolVars, chatVars, mcpVars, sessVars, regVars, schemaVars, cmdVars, pairVars, blockVars>>

\* sendDocumentChanged: d.subscriptions is copied under d.mutex.
SendDocumentChanged(t) ==
    /\ dpc[t] = "send"
    /\ dsnap' = [dsnap EXCEPT ![t] = subscriptions]
    /\ dnext' = [dnext EXCEPT ![t] = 1]
    /\ dpc' = [dpc EXCEPT ![t] = "deliver"]
    /\ UNCHANGED <<docBlocks, nextBlockID, subscriptions, nextSubscriptionID, closed, closedAt,
                   applied, delivered, dchange>>
    /\ UNCHANGED <<storeVars, retryVars, agentVars, toolVars, chatVars, mcpVars, sessVars, regVars, schemaVars, cmdVars, pairVars, blockVars>>

\* sendDocumentChanged: one turn of the loop over the copied list, with no
\* lock held: `if s == nil || s.subscriber == nil { continue }`.
SubscriberNilCheck(t) ==
    /\ dpc[t] = "deliver"
    /\ dnext[t] <= Len(dsnap[t])
    /\ IF dsnap[t][dnext[t]] \in closed
       THEN dnext' = [dnext EXCEPT ![t] = @ + 1] /\ UNCHANGED dpc
       ELSE dpc' = [dpc EXCEPT ![t] = "call"] /\ UNCHANGED dnext
    /\ UNCHANGED <<docBlocks, nextBlockID, subscriptions, nextSubscriptionID, closed, closedAt,
                   applied, delivered, dchange, dsnap>>
    /\ UNCHANGED <<storeVars, retryVars, agentVars, toolVars, chatVars, mcpVars, sessVars, regVars, schemaVars, cmdVars, pairVars, blockVars>>

\* sendDocumentChanged: `s.subscriber.DocumentChanged(d, b)`, a second
\* read of the field with no lock held. When Close has cleared the field
\* since the check, the read races with that write: the call goes to the
\* subscriber read at the check, or to the nil now in the field.
DocumentChanged(t, reloaded) ==
    /\ dpc[t] = "call"
    /\ LET s == dsnap[t][dnext[t]]
       IN IF s \in closed /\ reloaded
          THEN /\ dpc' = [dpc EXCEPT ![t] = "panic"]
               /\ UNCHANGED <<delivered, dnext>>
          ELSE /\ delivered' = [delivered EXCEPT ![s] = Append(@, dchange[t])]
               /\ dnext' = [dnext EXCEPT ![t] = @ + 1]
               /\ dpc' = [dpc EXCEPT ![t] = "deliver"]
    /\ UNCHANGED <<docBlocks, nextBlockID, subscriptions, nextSubscriptionID, closed, closedAt,
                   applied, dchange, dsnap>>
    /\ UNCHANGED <<storeVars, retryVars, agentVars, toolVars, chatVars, mcpVars, sessVars, regVars, schemaVars, cmdVars, pairVars, blockVars>>

\* sendDocumentChanged returns, and with it AddBlock or the setter.
SendDocumentChangedReturn(t) ==
    /\ dpc[t] = "deliver"
    /\ dnext[t] > Len(dsnap[t])
    /\ dpc' = [dpc EXCEPT ![t] = "idle"]
    /\ UNCHANGED <<docBlocks, nextBlockID, subscriptions, nextSubscriptionID, closed, closedAt,
                   applied, delivered, dchange, dsnap, dnext>>
    /\ UNCHANGED <<storeVars, retryVars, agentVars, toolVars, chatVars, mcpVars, sessVars, regVars, schemaVars, cmdVars, pairVars, blockVars>>

\* NewDocument.
InitDocument ==
    /\ docBlocks = <<>>
    /\ nextBlockID = 1
    /\ subscriptions = <<>>
    /\ nextSubscriptionID = 1
    /\ closed = {}
    /\ closedAt = [s \in 1..MaxSubscriptions |-> 0]
    /\ applied = <<>>
    /\ delivered = [s \in 1..MaxSubscriptions |-> <<>>]
    /\ dpc = [t \in Tasks |-> "idle"]
    /\ dchange = [t \in Tasks |-> 0]
    /\ dsnap = [t \in Tasks |-> <<>>]
    /\ dnext = [t \in Tasks |-> 1]

DocumentNext ==
    \/ AddSubscription
    \/ \E s \in 1..MaxSubscriptions : SubscriptionClose(s)
    \/ \E t \in Tasks : AddBlock(t)
    \/ \E t \in Tasks, b \in 1..MaxChanges : SetText(t, b)
    \/ \E t \in Tasks : SendDocumentChanged(t)
    \/ \E t \in Tasks : SubscriberNilCheck(t)
    \/ \E t \in Tasks, reloaded \in BOOLEAN : DocumentChanged(t, reloaded)
    \/ \E t \in Tasks : SendDocumentChangedReturn(t)

\* ------------------------------------------------------- the MCP clients
\* An error made with fmt.Errorf: neither an *APIError nor a net.Error.
ErrorString(msg) == [kind |-> "errorString", msg |-> msg]
NoMcpErr == [kind |-> "none", msg |-> ""]

ErrNotConnected == ErrorString("client not connected")

\* ensureConnected
EnsureConnected(client) == IF client = "nil" THEN ErrNotConnected ELSE NoMcpErr

\* Connect where a failed verification leaves the client in place.
ConnectOutcomeKeepsClient(client, transport, createOk, initOk, verifyOk) ==
    IF client # "nil" THEN [client |-> client, transport |-> transport, err |-> NoMcpErr]
    ELSE IF ~createOk
    THEN [client |-> "nil", transport |-> transport, err |-> ErrorString("creating MCP client")]
    ELSE IF ~initOk
    THEN [client |-> "nil", transport |-> "closed", err |-> ErrorString("initializing connection")]
    ELSE IF ~verifyOk
    THEN [client |-> "set", transport |-> "open", err |-> ErrorString("verifying connection")]
    ELSE [client |-> "set", transport |-> "open", err |-> NoMcpErr]

\* stdioClient.Connect and httpClient.Connect: what c.client and the
\* transport are afterwards and the error returned, given whether the
\* creation of the client, the handshake and the verifying ListTools
\* succeed. cleanup() closes the client and sets c.client to nil.
ConnectOutcome(client, transport, createOk, initOk, verifyOk) ==
    IF client # "nil" THEN [client |-> client, transport |-> transport, err |-> NoMcpErr]
    ELSE IF ~createOk
    THEN [client |-> "nil", transport |-> transport, err |-> ErrorString("creating MCP client")]
    ELSE IF ~initOk
    THEN [client |-> "nil", transport |-> "closed", err |-> ErrorString("initializing connection")]
    ELSE IF ~verifyOk
    THEN [client |-> "nil", transport |-> "closed", err |-> ErrorString("verifying connection")]
    ELSE [client |-> "set", transport |-> "open", err |-> NoMcpErr]

McpConnect(createOk, initOk, verifyOk) ==
    /\ Len(mLog) < MaxMcpCalls
    /\ LET r == ConnectOutcome(mClient, mTransport, createOk, initOk, verifyOk)
       IN /\ mClient' = r.client
          /\ mTransport' = r.transport
          /\ mRet' = [op |-> "Connect", err |-> r.err]
          /\ IF mClient # "nil" THEN UNCHANGED <<mHandshake, mVerified>>
             ELSE /\ mHandshake' = (createOk /\ initOk)
                  /\ mVerified' = (createOk /\ initOk /\ verifyOk)
    /\ UNCHANGED mcpCatalog
    /\ mLog' = Append(mLog, mRet')
    /\ UNCHANGED <<storeVars, retryVars, agentVars, toolVars, chatVars, docVars, sessVars, regVars, schemaVars, cmdVars, pairVars, blockVars>>

\* Close: the client is closed and forgotten, whatever Close returns.
McpClose(closeOk) ==
    /\ Len(mLog) < MaxMcpCalls
    /\ IF mClient = "nil"
       THEN /\ mRet' = [op |-> "Close", err |-> NoMcpErr]
            /\ UNCHANGED <<mClient, mTransport, mHandshake, mVerified>>
       ELSE /\ mClient' = "nil"
            /\ mTransport' = "closed"
            /\ UNCHANGED <<mHandshake, mVerified>>
            /\ mRet' = [op |-> "Close",
                        err |-> IF closeOk THEN NoMcpErr ELSE ErrorString("closing MCP client")]
    /\ UNCHANGED mcpCatalog
    /\ mLog' = Append(mLog, mRet')
    /\ UNCHANGED <<storeVars, retryVars, agentVars, toolVars, chatVars, docVars, sessVars, regVars, schemaVars, cmdVars, pairVars, blockVars>>

McpListTools(ok) ==
    /\ Len(mLog) < MaxMcpCalls
    /\ mRet' = [op |-> "ListTools",
                err |-> IF EnsureConnected(mClient) # NoMcpErr THEN EnsureConnected(mClient)
                        ELSE IF ~ok THEN ErrorString("listing tools")
                        ELSE NoMcpErr]
    /\ UNCHANGED <<mClient, mTransport, mHandshake, mVerified, mcpCatalog>>
    /\ mLog' = Append(mLog, mRet')
    /\ UNCHANGED <<storeVars, retryVars, agentVars, toolVars, chatVars, docVars, sessVars, regVars, schemaVars, cmdVars, pairVars, blockVars>>

\* What the server answers to a tool call.
CallOutcomes == {"text", "no text", "call error", "tool error", "tool error no text"}

McpCallTool(outcome) ==
    /\ Len(mLog) < MaxMcpCalls
    /\ mRet' = [op |-> "CallTool",
                err |-> IF EnsureConnected(mClient) # NoMcpErr THEN EnsureConnected(mClient)
                        ELSE IF outcome = "call error" THEN ErrorString("error calling tool")
                        ELSE IF outcome = "tool error" THEN ErrorString("tool error")
                        ELSE IF outcome = "tool error no text"
                        THEN ErrorString("tool returned an error")
                        ELSE NoMcpErr]
    /\ UNCHANGED <<mClient, mTransport, mHandshake, mVerified, mcpCatalog>>
    /\ mLog' = Append(mLog, mRet')
    /\ UNCHANGED <<storeVars, retryVars, agentVars, toolVars, chatVars, docVars, sessVars, regVars, schemaVars, cmdVars, pairVars, blockVars>>

\* The names of tools and of servers, as strings over two characters.
NameChars == {"a", "@"}
McpNames == UNION {[1..k -> NameChars] : k \in 1..MaxNameLen}

\* Tool.WithServer
WithServer(t, server) == [Name |-> t.Name, Server |-> server]

\* Tool.ID: fmt.Sprintf("%s@%s", t.Name, t.Server), or the name alone.
ID(t) == IF t.Server # <<>> THEN t.Name \o <<"@">> \o t.Server ELSE t.Name

\* A tool advertised by a connected server is wrapped with the server's
\* name and joins the merged catalog.
RegisterMcpTool(name, server) ==
    /\ Cardinality(mcpCatalog) < MaxCatalog
    /\ mcpCatalog' = mcpCatalog \cup {WithServer([Name |-> name, Server |-> <<>>], server)}
    /\ UNCHANGED <<mClient, mTransport, mHandshake, mVerified, mRet, mLog>>
    /\ UNCHANGED <<storeVars, retryVars, agentVars, toolVars, chatVars, docVars, sessVars, regVars, schemaVars, cmdVars, pairVars, blockVars>>

\* NewStdioClient, NewHTTPClient: no client yet.
InitMcp ==
    /\ mClient = "nil"
    /\ mTransport = "none"
    /\ mHandshake = FALSE
    /\ mVerified = FALSE
    /\ mRet = [op |-> "", err |-> NoMcpErr]
    /\ mLog = <<>>
    /\ mcpCatalog = {}

McpNext ==
    \/ \E createOk, initOk, verifyOk \in BOOLEAN : McpConnect(createOk, initOk, verifyOk)
    \/ \E closeOk \in BOOLEAN : McpClose(closeOk)
    \/ \E ok \in BOOLEAN : McpListTools(ok)
    \/ \E outcome \in CallOutcomes : McpCallTool(outcome)

McpCatalogNext == \E name \in McpNames, server \in McpNames : RegisterMcpTool(name, server)

\* ------------------------------------ session metadata, message timestamps
\* Time passes.
Tick ==
    /\ clock < MaxClock
    /\ clock' = clock + 1
    /\ UNCHANGED <<metadata, storedMsgs, smsg, spc>>
    /\ UNCHANGED <<storeVars, retryVars, agentVars, toolVars, chatVars, docVars, mcpVars, regVars, schemaVars, cmdVars, pairVars, blockVars>>

\* The caller makes the message: &api.Message{..., Timestamp: time.Now()}.
NewMessage(p) ==
    /\ spc[p] = "idle"
    /\ Len(storedMsgs) + Cardinality({q \in Procs : spc[q] = "created"}) < MaxStored
    /\ smsg' = [smsg EXCEPT ![p] = [id |-> p, Timestamp |-> clock]]
    /\ spc' = [spc EXCEPT ![p] = "created"]
    /\ UNCHANGED <<clock, metadata, storedMsgs>>
    /\ UNCHANGED <<storeVars, retryVars, agentVars, toolVars, chatVars, docVars, mcpVars, regVars, schemaVars, cmdVars, pairVars, blockVars>>

\* FileChatMessageStore.AddChatMessage writes history.json only: the
\* metadata file is as it was.
AppendedMetadata(meta, now) == meta

\* FileChatMessageStore.AddChatMessage: the message as the caller made it
\* goes to the end of the file, under s.mu.
AddChatMessage(p) ==
    /\ spc[p] = "created"
    /\ storedMsgs' = Append(storedMsgs, [id |-> smsg[p].id, Timestamp |-> smsg[p].Timestamp,
                                   at |-> clock])
    /\ metadata' = AppendedMetadata(metadata, clock)
    /\ spc' = [spc EXCEPT ![p] = "idle"]
    /\ UNCHANGED <<clock, smsg>>
    /\ UNCHANGED <<storeVars, retryVars, agentVars, toolVars, chatVars, docVars, mcpVars, regVars, schemaVars, cmdVars, pairVars, blockVars>>

\* filesystemStore.UpdateSession with a session whose LastModified the
\* caller has set to time.Now().
UpdateSession ==
    /\ metadata.LastAccessed # clock
    /\ metadata' = [metadata EXCEPT !.LastAccessed = clock]
    /\ UNCHANGED <<clock, storedMsgs, smsg, spc>>
    /\ UNCHANGED <<storeVars, retryVars, agentVars, toolVars, chatVars, docVars, mcpVars, regVars, schemaVars, cmdVars, pairVars, blockVars>>

\* filesystemStore.CreateSession with CreatedAt and LastModified set to the
\* time of the creation.
InitSession ==
    /\ clock = 0
    /\ metadata = [CreatedAt |-> 0, LastAccessed |-> 0]
    /\ storedMsgs = <<>>
    /\ smsg = [p \in Procs |-> [id |-> p, Timestamp |-> 0]]
    /\ spc = [p \in Procs |-> "idle"]

SessionNext ==
    \/ Tick
    \/ \E p \in Procs : NewMessage(p)
    \/ \E p \in Procs : AddChatMessage(p)
    \/ UpdateSession

\* ------------------------------------------------------ provider registry

\* Characters of provider ids and of the strings handed to NewClient.
SchemeChars == {"a", "A", ":"}

\* The ids the providers' init functions register under.
RegisteredIds == {<<"a">>, <<"a", "a">>}

Factories == {"f1", "f2"}

Goroutines == {"g1", "g2"}

RECURSIVE StringsUpTo(_)
StringsUpTo(n) ==
    IF n = 0 THEN {<<>>}
    ELSE LET shorter == StringsUpTo(n - 1)
         IN  shorter \cup {Append(s, c) : s \in shorter, c \in SchemeChars}

ProviderIDs == StringsUpTo(MaxProviderIDLen)

\* strings.ToLower on one character
ToLowerChar(c) == IF c = "A" THEN "a" ELSE c

ToLower(s) == [i \in 1..Len(s) |-> ToLowerChar(s[i])]

\* url.Parse as far as NewClient uses it: the scheme is what precedes the
\* first ":", lower-cased; a leading ":" is an error; no ":" gives the
\* empty scheme.
ColonAt(s) == {i \in 1..Len(s) : s[i] = ":"}

FirstColon(s) == CHOOSE i \in ColonAt(s) : \A j \in ColonAt(s) : i <= j

ParseFails(s) == ColonAt(s) # {} /\ FirstColon(s) = 1

Scheme(s) ==
    IF ColonAt(s) = {} THEN <<>>
    ELSE ToLower(SubSeq(s, 1, FirstColon(s) - 1))

\* Where RegisterProvider is called from: only the providers' init
\* functions, which the runtime runs one after another before main.
\* RegisterProvider callable at any time.
CalledFromAnywhere(ph) == TRUE

CalledFromInit(ph) == ph = "init"

\* The map lookup of an absent key gives the nil factory.
ProviderLookup(m, id) == IF id \in DOMAIN m THEN m[id] ELSE "nil"

\* The body of RegisterProvider under the lock.
\* RegisterProvider that stores the new factory whatever was there.
RegisterOutcomeOverwrite(m, id, factoryFunc) ==
    [providers |-> [k \in DOMAIN m \cup {id} |->
                        IF k = id THEN factoryFunc ELSE m[k]],
     err |-> IF id \in DOMAIN m THEN "already registered" ELSE ""]

RegisterOutcome(m, id, factoryFunc) ==
    IF id \in DOMAIN m
    THEN [providers |-> m, err |-> "already registered"]
    ELSE [providers |-> [k \in DOMAIN m \cup {id} |->
                            IF k = id THEN factoryFunc ELSE m[k]],
          err |-> ""]

NoCall == [pc |-> "idle", id |-> <<>>, factoryFunc |-> "nil"]

\* RegisterProvider up to r.mutex.Lock()
RegisterProvider(id, factoryFunc) ==
    /\ CalledFromInit(phase)
    /\ regCall.pc = "idle"
    /\ ~regMutex
    /\ Len(regLog) < MaxRegistrations
    /\ regMutex' = TRUE
    /\ regCall' = [pc |-> "locked", id |-> id, factoryFunc |-> factoryFunc]
    /\ UNCHANGED <<phase, providers, regLog, readers>>
    /\ UNCHANGED <<storeVars, retryVars, agentVars, toolVars, chatVars, docVars, mcpVars, sessVars, schemaVars, cmdVars, pairVars, blockVars>>

\* RegisterProvider from the lookup of the id to the deferred Unlock
RegisterProviderReturn ==
    /\ regCall.pc = "locked"
    /\ LET out == RegisterOutcome(providers, regCall.id, regCall.factoryFunc)
       IN  /\ providers' = out.providers
           /\ regLog' = Append(regLog, [id |-> regCall.id,
                                        factoryFunc |-> regCall.factoryFunc,
                                        err |-> out.err,
                                        after |-> out.providers])
    /\ regMutex' = FALSE
    /\ regCall' = NoCall
    /\ UNCHANGED <<phase, readers>>
    /\ UNCHANGED <<storeVars, retryVars, agentVars, toolVars, chatVars, docVars, mcpVars, sessVars, schemaVars, cmdVars, pairVars, blockVars>>

\* The init functions have all returned; main starts.
MainStart ==
    /\ phase = "init"
    /\ regCall.pc = "idle"
    /\ phase' = "main"
    /\ UNCHANGED <<providers, regMutex, regCall, regLog, readers>>
    /\ UNCHANGED <<storeVars, retryVars, agentVars, toolVars, chatVars, docVars, mcpVars, sessVars, schemaVars, cmdVars, pairVars, blockVars>>

NoLookup == [pc |-> "idle", scheme |-> <<>>, factoryFunc |-> "nil", err |-> ""]

\* registry.NewClient up to the map lookup: url.Parse(providerID)
NewClient(g, providerID) ==
    /\ phase = "main"
    /\ readers[g].pc \in {"idle", "done"}
    /\ readers' = [readers EXCEPT ![g] =
            IF ParseFails(providerID)
            THEN [pc |-> "done", scheme |-> <<>>,
                  factoryFunc |-> "nil", err |-> "parsing provider id"]
            ELSE [pc |-> "reading", scheme |-> Scheme(providerID),
                  factoryFunc |-> "nil", err |-> ""]]
    /\ UNCHANGED <<phase, providers, regMutex, regCall, regLog>>
    /\ UNCHANGED <<storeVars, retryVars, agentVars, toolVars, chatVars, docVars, mcpVars, sessVars, schemaVars, cmdVars, pairVars, blockVars>>

\* registry.NewClient: r.providers[u.Scheme], taken without the mutex,
\* and the dispatch to the factory
NewClientReturn(g) ==
    /\ readers[g].pc = "reading"
    /\ LET f == ProviderLookup(providers, readers[g].scheme)
       IN  readers' = [readers EXCEPT ![g] =
                [@ EXCEPT !.pc = "done", !.factoryFunc = f,
                          !.err = IF f = "nil" THEN "not registered" ELSE ""]]
    /\ UNCHANGED <<phase, providers, regMutex, regCall, regLog>>
    /\ UNCHANGED <<storeVars, retryVars, agentVars, toolVars, chatVars, docVars, mcpVars, sessVars, schemaVars, cmdVars, pairVars, blockVars>>

InitRegistry ==
    /\ phase = "init"
    /\ providers = << >>
    /\ regMutex = FALSE
    /\ regCall = NoCall
    /\ regLog = <<>>
    /\ readers = [g \in Goroutines |-> NoLookup]

RegistryNext ==
    \/ \E id \in RegisteredIds, f \in Factories : RegisterProvider(id, f)
    \/ RegisterProviderReturn
    \/ MainStart
    \/ \E g \in Goroutines, providerID \in ProviderIDs : NewClient(g, providerID)
    \/ \E g \in Goroutines : NewClientReturn(g)

\* ----------------------------------------------------- schema translation

SchemaTypes == {"object", "string", "integer", "array"}

PropertyNames == {"a", "b"}

NoProperties == [k \in {} |-> k]

\* A schema of the uniform form: Items is empty or holds the one item schema.
LeafSchema(t) ==
    [Type |-> t, Required |-> {}, Properties |-> NoProperties, Items |-> <<>>]

RECURSIVE Schemas(_)
Schemas(d) ==
    IF d = 0 THEN {LeafSchema(t) : t \in SchemaTypes}
    ELSE LET inner == Schemas(d - 1)
         IN  inner
             \cup UNION {UNION {{[Type |-> "object", Required |-> req,
                                  Properties |-> props, Items |-> <<>>] :
                                    req \in SUBSET ns} :
                                 props \in [ns -> inner]} :
                          ns \in (SUBSET PropertyNames) \ {{}}}
             \cup {[Type |-> "array", Required |-> {},
                    Properties |-> NoProperties, Items |-> <<s>>] : s \in inner}

\* toGeminiSchema returns an error for a type other than object and string,
\* at any level of the properties.
RECURSIVE GeminiHandles(_)
GeminiHandles(schema) ==
    /\ schema.Type \in {"object", "string"}
    /\ \A k \in DOMAIN schema.Properties : GeminiHandles(schema.Properties[k])

\* toGeminiSchema on a schema it handles: Description, Required, Type and
\* Properties are copied; Items is not.
RECURSIVE GeminiSchema(_)
GeminiSchema(schema) ==
    [Type |-> schema.Type,
     Required |-> schema.Required,
     Properties |-> [k \in DOMAIN schema.Properties |->
                        GeminiSchema(schema.Properties[k])],
     Items |-> <<>>]

TranslateToGemini(schema) ==
    IF GeminiHandles(schema)
    THEN [err |-> FALSE, schema |-> GeminiSchema(schema)]
    ELSE [err |-> TRUE, schema |-> LeafSchema("")]

\* fnDefToAzureOpenAITool: the parameters become an object whose properties
\* carry the type and the description of each parameter and nothing else.
TranslateToAzure(schema) ==
    [err |-> FALSE,
     schema |-> [Type |-> "object",
                 Required |-> schema.Required,
                 Properties |-> [k \in DOMAIN schema.Properties |->
                                    LeafSchema(schema.Properties[k].Type)],
                 Items |-> <<>>]]

SchemaProviders == {"gemini", "azopenai"}

\* SetFunctionDefinitions translating the parameter schema of a definition
TranslateSchema(p, schema) ==
    /\ trProvider' = p
    /\ trSchema' = schema
    /\ trOut' = IF p = "gemini" THEN TranslateToGemini(schema)
                ELSE TranslateToAzure(schema)
    /\ UNCHANGED <<storeVars, retryVars, agentVars, toolVars, chatVars, docVars, mcpVars, sessVars, regVars, cmdVars, pairVars, blockVars>>

InitSchema ==
    /\ trProvider = "none"
    /\ trSchema = LeafSchema("")
    /\ trOut = [err |-> FALSE, schema |-> LeafSchema("")]

SchemaNext ==
    \E p \in SchemaProviders, schema \in Schemas(MaxSchemaDepth) : TranslateSchema(p, schema)

\* -------------------------------------------------- the command's exit

Signals == {"SIGINT", "SIGTERM"}

\* os.Exit(code)
Exit(code, cause) ==
    /\ mainPc' = "exited"
    /\ exitStatus' = code
    /\ exitCause' = cause

\* flag.Parse(): the command line's flag set exits with status 2 on a flag
\* it cannot parse.
FlagParse(flagsOk) ==
    /\ mainPc = "flags"
    /\ IF flagsOk
       THEN mainPc' = "args" /\ UNCHANGED <<exitStatus, exitCause>>
       ELSE Exit(2, "usage")
    /\ UNCHANGED <<queryFromCmd, pendingSig, sigInLoop, chatQueries>>
    /\ UNCHANGED <<storeVars, retryVars, agentVars, toolVars, chatVars, docVars, mcpVars, sessVars, regVars, schemaVars, pairVars, blockVars>>

\* run, from the kubeconfig path to the query: more than one positional
\* argument and an empty query on stdin are errors that run returns, and
\* main exits with status 1 on any error of run.
RunArguments(homeDirOk, nargs, stdinHasData, stdinEmpty) ==
    /\ mainPc = "args"
    /\ IF ~homeDirOk
       THEN Exit(1, "generic") /\ UNCHANGED queryFromCmd
       ELSE IF nargs > 1 \/ (stdinHasData /\ nargs = 0 /\ stdinEmpty)
       THEN Exit(1, "usage") /\ UNCHANGED queryFromCmd
       ELSE /\ mainPc' = "setup"
            /\ queryFromCmd' = (stdinHasData \/ nargs = 1)
            /\ UNCHANGED <<exitStatus, exitCause>>
    /\ UNCHANGED <<pendingSig, sigInLoop, chatQueries>>
    /\ UNCHANGED <<storeVars, retryVars, agentVars, toolVars, chatVars, docVars, mcpVars, sessVars, regVars, schemaVars, pairVars, blockVars>>

LLMProviders == {"gemini", "vertexai", "other"}

\* run, from the provider switch to the terminal UI
RunSetup(llmProvider, setupOk) ==
    /\ mainPc = "setup"
    /\ IF llmProvider \notin {"gemini", "vertexai"}
       THEN Exit(1, "usage")
       ELSE IF ~setupOk
       THEN Exit(1, "generic")
       ELSE /\ mainPc' = IF queryFromCmd THEN "once" ELSE "loop"
            /\ UNCHANGED <<exitStatus, exitCause>>
    /\ UNCHANGED <<queryFromCmd, pendingSig, sigInLoop, chatQueries>>
    /\ UNCHANGED <<storeVars, retryVars, agentVars, toolVars, chatVars, docVars, mcpVars, sessVars, regVars, schemaVars, pairVars, blockVars>>

\* return agent.RunOnce(ctx, userInterface) for the query of the command line
RunOnceFromCmd(ok) ==
    /\ mainPc = "once"
    /\ IF ok THEN Exit(0, "success") ELSE Exit(1, "generic")
    /\ UNCHANGED <<queryFromCmd, pendingSig, sigInLoop, chatQueries>>
    /\ UNCHANGED <<storeVars, retryVars, agentVars, toolVars, chatVars, docVars, mcpVars, sessVars, regVars, schemaVars, pairVars, blockVars>>

LoopInputs == {"readError", "empty", "reset", "exit", "query", "queryFails"}

\* One turn of the loop of run: read a line, act on it.
RunLoop(input) ==
    /\ mainPc = "loop"
    /\ CASE input = "readError" -> Exit(1, "generic") /\ UNCHANGED chatQueries
         [] input = "queryFails" -> Exit(1, "generic") /\ UNCHANGED chatQueries
         [] input = "exit" -> Exit(0, "success") /\ UNCHANGED chatQueries
         [] input = "reset" ->
                chatQueries' = 0 /\ UNCHANGED <<mainPc, exitStatus, exitCause>>
         [] input = "query" ->
                /\ chatQueries < MaxQueries
                /\ chatQueries' = chatQueries + 1
                /\ UNCHANGED <<mainPc, exitStatus, exitCause>>
         [] OTHER -> UNCHANGED <<mainPc, exitStatus, exitCause, chatQueries>>
    /\ UNCHANGED <<queryFromCmd, pendingSig, sigInLoop>>
    /\ UNCHANGED <<storeVars, retryVars, agentVars, toolVars, chatVars, docVars, mcpVars, sessVars, regVars, schemaVars, pairVars, blockVars>>

\* A signal reaches the process: signal.Notify puts it into sigCh, which
\* holds one signal.
SignalArrives(sig) ==
    /\ mainPc # "exited"
    /\ pendingSig = ""
    /\ pendingSig' = sig
    /\ sigInLoop' = (mainPc = "loop")
    /\ UNCHANGED <<mainPc, exitStatus, exitCause, queryFromCmd, chatQueries>>
    /\ UNCHANGED <<storeVars, retryVars, agentVars, toolVars, chatVars, docVars, mcpVars, sessVars, regVars, schemaVars, pairVars, blockVars>>

\* main's goroutine: sig := <-sigCh; os.Exit(0)
SignalExit ==
    /\ mainPc # "exited"
    /\ pendingSig # ""
    /\ Exit(0, pendingSig)
    /\ UNCHANGED <<queryFromCmd, pendingSig, sigInLoop, chatQueries>>
    /\ UNCHANGED <<storeVars, retryVars, agentVars, toolVars, chatVars, docVars, mcpVars, sessVars, regVars, schemaVars, pairVars, blockVars>>

InitCommand ==
    /\ mainPc = "flags"
    /\ exitStatus = -1
    /\ exitCause = ""
    /\ queryFromCmd = FALSE
    /\ pendingSig = ""
    /\ sigInLoop = FALSE
    /\ chatQueries = 0

CommandNext ==
    \/ \E flagsOk \in BOOLEAN : FlagParse(flagsOk)
    \/ \E homeDirOk \in BOOLEAN, nargs \in 0..MaxArgs, stdinHasData \in BOOLEAN, stdinEmpty \in BOOLEAN :
            RunArguments(homeDirOk, nargs, stdinHasData, stdinEmpty)
    \/ \E llmProvider \in LLMProviders, setupOk \in BOOLEAN : RunSetup(llmProvider, setupOk)
    \/ \E ok \in BOOLEAN : RunOnceFromCmd(ok)
    \/ \E input \in LoopInputs : RunLoop(input)
    \/ \E sig \in Signals : SignalArrives(sig)
    \/ SignalExit

\* ------------------------------------------- memory and filesystem store

SessionIds == {"s1", "s2"}

NoSessions == [k \in {} |-> k]

\* A stored session: its created-at and the number of messages of its
\* history.
WithSession(sessions, id, session) ==
    [k \in DOMAIN sessions \cup {id} |-> IF k = id THEN session ELSE sessions[k]]

\* memoryStore.CreateSession: an id that is in the map is an error.
MemoryCreateSession(sessions, id, createdAt) ==
    IF id \in DOMAIN sessions
    THEN [sessions |-> sessions, err |-> "already exists"]
    ELSE [sessions |-> WithSession(sessions, id, [CreatedAt |-> createdAt, history |-> 0]),
          err |-> ""]

\* filesystemStore.CreateSession: os.MkdirAll succeeds on a directory that
\* exists, and saveMetadata writes the new metadata over the old file; the
\* history file is not touched.
FilesystemCreateSession(sessions, id, createdAt) ==
    [sessions |-> WithSession(sessions, id,
                     [CreatedAt |-> createdAt,
                      history |-> IF id \in DOMAIN sessions
                                  THEN sessions[id].history ELSE 0]),
     err |-> ""]

NoSession == [CreatedAt |-> -1, history |-> 0]

SessionOf(sessions, id) == IF id \in DOMAIN sessions THEN sessions[id] ELSE NoSession

NoCreate == [id |-> "", existed |-> FALSE, memErr |-> "", fsErr |-> "",
             memBefore |-> NoSession, fsBefore |-> NoSession]

\* CreateSession(&api.Session{ID: id, CreatedAt: createdAt}) on each store
CreateSession(id, createdAt) ==
    /\ LET m == MemoryCreateSession(memSessions, id, createdAt)
           f == FilesystemCreateSession(fsSessions, id, createdAt)
       IN  /\ memSessions' = m.sessions
           /\ fsSessions' = f.sessions
           /\ lastCreate' = [id |-> id, existed |-> id \in DOMAIN memSessions,
                             memErr |-> m.err, fsErr |-> f.err,
                             memBefore |-> SessionOf(memSessions, id),
                             fsBefore |-> SessionOf(fsSessions, id)]
    /\ UNCHANGED <<storeVars, retryVars, agentVars, toolVars, chatVars, docVars, mcpVars, sessVars, regVars, schemaVars, cmdVars, blockVars>>

\* AddChatMessage on the session's message store, in each store
StoredSessionAddChatMessage(id) ==
    /\ id \in DOMAIN memSessions
    /\ memSessions[id].history < MaxStored
    /\ memSessions' = [memSessions EXCEPT ![id].history = @ + 1]
    /\ fsSessions' = [fsSessions EXCEPT ![id].history = @ + 1]
    /\ UNCHANGED lastCreate
    /\ UNCHANGED <<storeVars, retryVars, agentVars, toolVars, chatVars, docVars, mcpVars, sessVars, regVars, schemaVars, cmdVars, blockVars>>

InitStorePair ==
    /\ memSessions = NoSessions
    /\ fsSessions = NoSessions
    /\ lastCreate = NoCreate

StorePairNext ==
    \/ \E id \in SessionIds, createdAt \in 0..MaxClock : CreateSession(id, createdAt)
    \/ \E id \in SessionIds : StoredSessionAddChatMessage(id)

\* --------------------------------------------------- agent text blocks

TextChars == {"a", "<"}

RECURSIVE TextsUpTo(_)
TextsUpTo(n) ==
    IF n = 0 THEN {<<>>}
    ELSE LET shorter == TextsUpTo(n - 1)
         IN  shorter \cup {Append(s, c) : s \in shorter, c \in TextChars}

\* template.HTMLEscapeString: "<" becomes "&lt;"
RECURSIVE HTMLEscapeString(_)
HTMLEscapeString(text) ==
    IF text = <<>> THEN <<>>
    ELSE (IF Head(text) = "<" THEN <<"&lt;">> ELSE <<Head(text)>>)
         \o HTMLEscapeString(Tail(text))

\* htmlRenderer.Convert: the markdown renderer wraps the text in a
\* paragraph.
MarkdownConvert(text) ==
    IF text = <<>> THEN <<>> ELSE <<"<p>">> \o HTMLEscapeString(text) \o <<"</p>">>

\* AgentTextBlock.SetText: b.text = agentText; b.html stays as it is.
AgentTextSetText(agentText) ==
    /\ bText' = agentText
    /\ UNCHANGED <<bHtml, lastHTML>>
    /\ UNCHANGED <<storeVars, retryVars, agentVars, toolVars, chatVars, docVars, mcpVars, sessVars, regVars, schemaVars, cmdVars, pairVars>>

\* AgentTextBlock.AppendText: b.text = b.text + text; b.html = nil.
AgentTextAppendText(text) ==
    /\ Len(bText) + Len(text) <= MaxTextLen
    /\ bText' = bText \o text
    /\ bHtml' = <<>>
    /\ UNCHANGED lastHTML
    /\ UNCHANGED <<storeVars, retryVars, agentVars, toolVars, chatVars, docVars, mcpVars, sessVars, regVars, schemaVars, cmdVars, pairVars>>

\* What b.doc.MarkdownHTMLRenderer() and Convert do in one HTML() call.
RendererOutcomes == {"nil", "convertFails", "ok"}

\* AgentTextBlock.HTML: the cached rendering if there is one; else the
\* markdown rendering, which is cached, or the escaped text when there is
\* no renderer or Convert fails.
AgentTextHTML(renderer) ==
    /\ IF bHtml # <<>>
       THEN /\ lastHTML' = [called |-> TRUE, html |-> bHtml[1], text |-> bText]
            /\ UNCHANGED bHtml
       ELSE IF renderer = "ok"
       THEN /\ bHtml' = <<MarkdownConvert(bText)>>
            /\ lastHTML' = [called |-> TRUE, html |-> MarkdownConvert(bText), text |-> bText]
       ELSE /\ lastHTML' = [called |-> TRUE, html |-> HTMLEscapeString(bText), text |-> bText]
            /\ UNCHANGED bHtml
    /\ UNCHANGED bText
    /\ UNCHANGED <<storeVars, retryVars, agentVars, toolVars, chatVars, docVars, mcpVars, sessVars, regVars, schemaVars, cmdVars, pairVars>>

\* NewAgentTextBlock
InitBlock ==
    /\ bText = <<>>
    /\ bHtml = <<>>
    /\ lastHTML = [called |-> FALSE, html |-> <<>>, text |-> <<>>]

BlockNext ==
    \/ \E agentText \in TextsUpTo(MaxTextLen) : AgentTextSetText(agentText)
    \/ \E text \in TextsUpTo(MaxTextLen) : AgentTextAppendText(text)
    \/ \E renderer \in RendererOutcomes : AgentTextHTML(renderer)

\* The parts of the program that a specification leaves untouched, as
\* they are when the process has started.
InitRest ==
    /\ InitDocument
    /\ InitMcp
    /\ InitSession
    /\ InitRegistry
    /\ InitSchema
    /\ InitCommand
    /\ InitStorePair
    /\ InitBlock

\* --------------------------------------------------------- specifications
InitStoreWith(file) ==
    /\ historyFile = file
    /\ nStores = 1
    /\ mu = [h \in 1..(MaxStores + 1) |-> NoProc]
    /\ pc = [p \in Procs |-> "idle"]
    /\ hnd = [p \in Procs |-> 0]
    /\ fdOff = [p \in Procs |-> 0]
    /\ pending = [p \in Procs |-> <<>>]
    /\ scanp = [p \in Procs |-> 1]
    /\ decErr = [p \in Procs |-> FALSE]
    /\ messages = [p \in Procs |-> <<>>]
    /\ ret = [p \in Procs |-> <<>>]
    /\ nextId = 1
    /\ nMut = 0
    /\ nLists = 0

\* A session just created by CreateSession: no history yet.
Init ==
    /\ InitStoreWith(<<>>)
    /\ InitRetryWith(DefaultRetryConfig)
    /\ InitAgentWith(1)
    /\ InitTool
    /\ InitChatWith("azure")
    /\ InitRest
AppendNext ==
    \/ GetSession
    \/ \E p \in Procs, h \in 1..MaxStores : AddBegin(p, h)
    \/ \E p \in Procs : AddWrite(p)
    \/ \E p \in Procs : AddEnd(p)

ListNext ==
    \/ GetSession
    \/ \E p \in Procs, h \in 1..MaxStores : ListBegin(p, h)
    \/ \E p \in Procs : ListStep(p)
    \/ \E p \in Procs : ListEnd(p)

StoreNext ==
    \/ GetSession
    \/ \E p \in Procs, h \in 1..MaxStores : AddBegin(p, h)
    \/ \E p \in Procs : AddWrite(p)
    \/ \E p \in Procs : AddEnd(p)
    \/ \E p \in Procs, h \in 1..MaxStores, n \in 0..MaxReplaceLen : SetBegin(p, h, n)
    \/ \E p \in Procs : SetWrite(p)
    \/ \E p \in Procs : SetEnd(p)
    \/ \E p \in Procs, h \in 1..MaxStores : ClearBegin(p, h)
    \/ \E p \in Procs : ClearEnd(p)
    \/ \E p \in Procs, h \in 1..MaxStores : ListBegin(p, h)
    \/ \E p \in Procs : ListStep(p)
    \/ \E p \in Procs : ListEnd(p)

Next == StoreNext

\* The whole session store, from a fresh session.
Spec == Init /\ [][Next]_vars

\* Only AddChatMessage calls, from a fresh session.
SpecAppend == Init /\ [][AppendNext]_vars

InitRetry ==
    /\ InitStoreWith(<<>>)
    /\ \E c \in RetryConfigs : InitRetryWith(c)
    /\ InitAgentWith(1)
    /\ InitTool
    /\ InitChatWith("azure")
    /\ InitRest
\* One call of Retry, for every configuration.
SpecRetry == InitRetry /\ [][RetryNext]_vars

\* A history file found on disk: up to MaxFileEntries lines, each a stored
\* message or a corrupted entry.
Entries == {Marshal(1), Marshal(2), <<BadType>>, <<BadSyntax>>, <<BadClose>>}

RECURSIVE FilesOf(_)
FilesOf(n) ==
    IF n = 0 THEN {<<>>}
    ELSE LET shorter == FilesOf(n - 1)
         IN shorter \cup {f \o e \o <<NL>> : f \in shorter, e \in Entries}

InitList ==
    /\ \E file \in FilesOf(MaxFileEntries) : InitStoreWith(file)
    /\ InitRetryWith(DefaultRetryConfig)
    /\ InitAgentWith(1)
    /\ InitTool
    /\ InitChatWith("azure")
    /\ InitRest
\* Only ChatMessages calls, on a history file found on disk.
SpecList == InitList /\ [][ListNext]_vars

\* The same, with every goroutine that is inside ChatMessages going on
\* running: the scheduler does not stop a runnable goroutine for ever.
SpecListFair ==
    /\ InitList
    /\ [][ListNext]_vars
    /\ \A p \in Procs : WF_vars(ListStep(p)) /\ WF_vars(ListEnd(p))

InitAgent ==
    /\ InitStoreWith(<<>>)
    /\ InitRetryWith(DefaultRetryConfig)
    /\ \E n \in 1..MaxBudget : InitAgentWith(n)
    /\ InitTool
    /\ InitChatWith("azure")
    /\ InitRest
\* One run of the agent loop, for every budget and every LLM answer.
SpecAgent == InitAgent /\ [][AgentNext]_vars

\* One run of the agent loop against the stub that always asks for a tool.
SpecAgentStub == InitAgent /\ [][AgentStubNext]_vars

\* One invocation of the tool, for every args map and every outcome.
SpecTool == Init /\ [][ToolNext]_vars

\* executeCommand by itself, as a caller without a signal handler of its
\* own runs it, with the goroutines of the calling process going on
\* running: executeCommand and its two readers take a step that stays
\* possible. Nothing is assumed of the child.
ExecNext ==
    \/ \E args \in ToolArgSets : ToolRun(args)
    \/ \E outcome \in {"exit0", "exitError", "startError"} : ExecRun(outcome)
    \/ \E ok \in BOOLEAN : ExecStreamStart(ok)
    \/ ChildClosesStdout
    \/ ChildClosesStderr
    \/ ChildExits
    \/ StdoutReaderDone
    \/ StderrReaderDone
    \/ UserInterrupt
    \/ SelectInterrupt
    \/ SelectReaderDone
    \/ DrainReader
    \/ ExecStreamReturn

SpecExecFair ==
    /\ Init
    /\ [][ExecNext]_vars
    /\ WF_vars(StdoutReaderDone) /\ WF_vars(StderrReaderDone)
    /\ WF_vars(SelectInterrupt) /\ WF_vars(SelectReaderDone)
    /\ WF_vars(DrainReader) /\ WF_vars(ExecStreamReturn)

InitChat ==
    /\ InitStoreWith(<<>>)
    /\ InitRetryWith(DefaultRetryConfig)
    /\ InitAgentWith(1)
    /\ InitTool
    /\ \E p \in {"gemini", "azure"} : InitChatWith(p)
    /\ InitRest
\* SetFunctionDefinitions calls on a chat, and the requests that follow.
SpecChatTools == InitChat /\ [][ChatToolsNext]_vars

\* Send calls on a chat and the reading of the responses.
SpecChat == InitChat /\ [][ChatNext]_vars

\* Tasks that add and change blocks of one document with subscribers.
SpecDocument == Init /\ [][DocumentNext]_vars

\* Operations on one MCP client, for every answer of its server.
SpecMcp == Init /\ [][McpNext]_vars

\* The merged catalog of MCP tools, for every tool name and server name.
SpecMcpCatalog == Init /\ [][McpCatalogNext]_vars

\* Goroutines that make messages and append them to one session while
\* time passes.
SpecSession == Init /\ [][SessionNext]_vars

SpecRegistry == Init /\ [][RegistryNext]_vars

SpecSchema == Init /\ [][SchemaNext]_vars

SpecBlock == Init /\ [][BlockNext]_vars

SpecStorePair == Init /\ [][StorePairNext]_vars

SpecCommand == Init /\ [][CommandNext]_vars

\* ------------------------------------------------------- reading the file
\* The complete lines of a file, without their newlines.
RECURSIVE LinesFrom(_, _, _)
LinesFrom(f, i, cur) ==
    IF i > Len(f) THEN <<>>
    ELSE IF f[i] = NL THEN <<cur>> \o LinesFrom(f, i + 1, <<>>)
    ELSE LinesFrom(f, i + 1, Append(cur, f[i]))

Lines(f) == LinesFrom(f, 1, <<>>)

\* The bytes after the last newline.
RECURSIVE TrailingFrom(_, _, _)
TrailingFrom(f, i, cur) ==
    IF i > Len(f) THEN cur
    ELSE IF f[i] = NL THEN TrailingFrom(f, i + 1, <<>>)
    ELSE TrailingFrom(f, i + 1, Append(cur, f[i]))

Trailing(f) == TrailingFrom(f, 1, <<>>)

WellFormedLine(l) == Len(l) = 1 /\ l[1].k = "json"

IsJson(t) == t.k = "json"

\* The well-formed messages of a file, in file order.
RECURSIVE Values(_)
Values(ts) == IF ts = <<>> THEN <<>> ELSE <<Head(ts).v>> \o Values(Tail(ts))

StoredMessages(f) == Values(SelectSeq(f, IsJson))

\* The state of p's ChatMessages call.
ListLocals(p) == <<pc[p], scanp[p], decErr[p], messages[p]>>

Writing(p) == pc[p] = "add_write" /\ pending[p] # <<>>

\* ------------------------------------------------------------------ claims

\* C1: under concurrent AddChatMessage calls to one session the history
\* file holds only complete, well-formed lines, one per message, and as
\* many of them as there are calls that have written: with N calls made and
\* all returned, exactly N lines.
C1_AppendSafe ==
    LET ls == Lines(historyFile)
    IN /\ Trailing(historyFile) = <<>>
       /\ \A i \in 1..Len(ls) : WellFormedLine(ls[i])
       /\ \A i, j \in 1..Len(ls) : i # j => ls[i] # ls[j]
       /\ Len(ls) = (nextId - 1) - Cardinality({p \in Procs : Writing(p)})
       /\ (\A p \in Procs : pc[p] = "idle") => Len(ls) = nextId - 1

\* C1 witness: two calls overlap through different store objects, one has
\* written its line and the other has not yet.
C1_Witness ==
    \E p, q \in Procs :
        /\ p # q /\ hnd[p] # hnd[q]
        /\ pc[p] = "add_write" /\ pending[p] = <<>>
        /\ Writing(q)
        /\ Len(historyFile) > 0

\* C3: no two message operations on the session overlap, whichever store
\* object (session handle) each was issued through.
C3_SessionMutex ==
    \A p, q \in Procs : (p # q /\ InOp(p)) => ~InOp(q)

\* C4: ChatMessages returns every well-formed message of the file in file
\* order, and each turn of its loop that meets a malformed entry moves
\* past that entry and goes on reading.
C4_ListSkipsMalformed ==
    [][\A p \in Procs :
          (pc[p] = "list_scan" /\ ListLocals(p)' # ListLocals(p)) =>
            /\ (pc'[p] = "idle" => ret'[p] = StoredMessages(historyFile))
            /\ LET i == Peek(historyFile, scanp[p])
               IN (i <= Len(historyFile) /\ ~IsJson(historyFile[i]))
                      => (pc'[p] = "list_scan" /\ scanp'[p] > i)]_vars

\* C2 as stated: for every retry configuration, a call of Retry that has
\* returned has invoked the operation at least once and at most MaxAttempts
\* times.
C2_AtLeastOnceAtMostMax ==
    rpc = "returned" => (calls >= 1 /\ calls <= config.MaxAttempts)

\* C2 as amended: with MaxAttempts >= 1 a call of Retry invokes the
\* operation at most MaxAttempts times and, once it has returned, has
\* invoked it at least once; with MaxAttempts <= 0 it never invokes it.
C2_AttemptsBounded ==
    /\ config.MaxAttempts >= 1 => calls <= config.MaxAttempts
    /\ (config.MaxAttempts >= 1 /\ rpc = "returned") => calls >= 1
    /\ config.MaxAttempts <= 0 => calls = 0

\* C2 witness: Retry returned after using every one of several attempts.
C2_Witness ==
    /\ rpc = "returned"
    /\ config.MaxAttempts >= 2
    /\ calls = config.MaxAttempts

\* C5: with a budget of N and an LLM that answers every turn with one tool
\* call, the run never executes more than N tools; when the budget reaches
\* zero exactly N tools have been executed over N Sends, the last block is
\* the `iteration budget exhausted` Error, the exit code is 0 and the run
\* is over, so that no Send or tool execution follows.
C5_BudgetExhaustion ==
    /\ Len(executed) <= budget
    /\ Len(sends) <= budget
    /\ iterLeft = 0 =>
          /\ aState = "Aborted"
          /\ Len(executed) = budget
          /\ Len(sends) = budget
          /\ blocks # <<>>
          /\ blocks[Len(blocks)] = "Error: iteration budget exhausted"
          /\ exitCode = 0

\* C5 witness: the largest budget is used up.
C5_Witness ==
    /\ budget = MaxBudget
    /\ iterLeft = 0
    /\ Len(executed) = MaxBudget

ResultIds(c) ==
    LET rs == SelectSeq(c, LAMBDA x : x.kind = "result")
    IN [i \in 1..Len(rs) |-> rs[i].id]

\* The ids of the tool-call-result messages of the session, in order.
RecordedIds(msgs) ==
    LET rs == SelectSeq(msgs, LAMBDA m : m.type = "tool-call-result")
    IN [i \in 1..Len(rs) |-> rs[i].id]

\* The ids of the results of every Send made, in order.
RECURSIVE SentIds(_)
SentIds(ss) ==
    IF ss = <<>> THEN <<>> ELSE ResultIds(Head(ss)) \o SentIds(Tail(ss))

\* C8: the calls of a response are dispatched one at a time in the order
\* the LLM declared them (the order of their ids), their result messages
\* are appended in that order, and the next Send is made only when every
\* call has its result and carries exactly the results not sent before.
C8_SequentialInOrder ==
    [][/\ RecordedIds(sessionMsgs') = [i \in 1..Len(RecordedIds(sessionMsgs')) |-> i]
       /\ \/ executed' = executed
          \/ /\ Len(executed') = Len(executed) + 1
             /\ SubSeq(executed', 1, Len(executed)) = executed
             /\ \A i \in 1..Len(executed) : executed[i] < executed'[Len(executed')]
             /\ Len(RecordedIds(sessionMsgs')) = Len(RecordedIds(sessionMsgs)) + 1
       /\ sends' # sends =>
             /\ pendingCalls = <<>>
             /\ Len(RecordedIds(sessionMsgs)) = nextCallId - 1
             /\ SentIds(sends') = RecordedIds(sessionMsgs)
             /\ SentIds(sends) \o ResultIds(sends'[Len(sends')]) = SentIds(sends')]_vars

\* C8 witness: a Send that carried the results of two calls.
C8_Witness ==
    \E k \in 1..Len(sends) : Len(ResultIds(sends[k])) >= 2

\* C9: dispatching a call for a tool name that is not in the catalog
\* executes no tool, appends a result message for that call and an error
\* result for the next Send, and leaves the run in ExecutingTools with the
\* remaining calls still to be dispatched.
C9_UnknownTool ==
    [][(/\ aState = "ExecutingTools"
        /\ pendingCalls # <<>>
        /\ pendingCalls' # pendingCalls
        /\ Head(pendingCalls).name \notin Catalog) =>
            /\ executed' = executed
            /\ sessionMsgs'[Len(sessionMsgs')] =
                   Msg("tool-call-result", Head(pendingCalls).id, Head(pendingCalls).name)
            /\ Len(content') = Len(content) + 1
            /\ content'[Len(content')].id = Head(pendingCalls).id
            /\ content'[Len(content')].error = "tool not found"
            /\ aState' = "ExecutingTools"
            /\ pendingCalls' = Tail(pendingCalls)]_vars

\* C9 witness: the run went on after an unknown tool: a later Send carried
\* the synthesized error and a known tool was executed after it.
C9_Witness ==
    \E k \in 1..Len(sends) : \E i \in 1..Len(sends[k]) :
        /\ sends[k][i].error = "tool not found"
        /\ \E e \in 1..Len(executed) : executed[e] > sends[k][i].id

\* The command holds the text at some position.
Mentions(cmd, text) ==
    \E i \in 0..Len(cmd) :
        /\ i + Len(text) <= Len(cmd)
        /\ \A k \in 1..Len(text) : cmd[i + k] = text[k]

\* C10: an invocation whose command contains `kubectl edit` or
\* `kubectl port-forward` returns at once a result whose Error is the fixed
\* message, with a nil error, and starts no process.
C10_RejectedWithoutSpawn ==
    (/\ tpc # "idle"
     /\ toolArgs.hasCommand
     /\ \/ Mentions(toolArgs.command, <<"kubectl", " ", "edit">>)
        \/ Mentions(toolArgs.command, <<"kubectl", " ", "port-forward">>)) =>
        /\ tpc = "returned"
        /\ toolRet.err = ""
        /\ toolRet.result.nil = FALSE
        /\ toolRet.result.Error =
               IF Mentions(toolArgs.command, <<"kubectl", " ", "edit">>)
               THEN "interactive mode not supported for kubectl, please use non-interactive commands"
               ELSE "port-forwarding is not allowed because assistant is running in an unattended mode, please try some other alternative"
        /\ spawned = 0
        /\ child = "none"

\* C10 witness: a command with `kubectl port-forward` in its middle was
\* rejected.
C10_Witness ==
    /\ tpc = "returned"
    /\ toolArgs.hasCommand
    /\ Len(toolArgs.command) > 3
    /\ toolArgs.command[1] # "kubectl"
    /\ Mentions(toolArgs.command, <<"kubectl", " ", "port-forward">>)

\* C11: an invocation whose command argument is missing or empty does not
\* crash the tool and starts no process, and what it returns is a result
\* whose Error is `command not provided`, with a nil error.
C11_CommandNotProvided ==
    (/\ tpc # "idle"
     /\ (~toolArgs.hasCommand \/ toolArgs.command = <<>>)) =>
        /\ tpc # "panicked"
        /\ spawned = 0
        /\ tpc = "returned" =>
              /\ toolRet.err = ""
              /\ toolRet.result.nil = FALSE
              /\ toolRet.result.Error = "command not provided"

C13_NonRetryableReturned ==
    [][(rpc = "failed" /\ ~ctxDone /\ ~IsRetryable(lastErr) /\ rpc' # rpc) =>
           /\ rpc' = "returned"
           /\ retryRet'.err = lastErr
           /\ retryRet'.err = opLog[Len(opLog)]
           /\ calls' = calls
           /\ slept' = slept
           /\ waitTime' = waitTime]_vars

\* C13 witness: Retry returned a non-retryable error of its second attempt.
C13_Witness ==
    /\ rpc = "returned"
    /\ calls = 2
    /\ retryRet.err.kind = "api"
    /\ retryRet.err.status = 400

\* C14: every wait between two attempts lasts at most MaxBackoff.
C14_WaitAtMostMaxBackoff ==
    rpc = "waiting" => waitTime <= config.MaxBackoff

\* InitialBackoff x BackoffFactor^k
RECURSIVE Grown(_, _, _)
Grown(initial, factor, k) ==
    IF k = 0 THEN initial ELSE factor * Grown(initial, factor, k - 1)

\* The sum over k in 0..last of min(MaxBackoff, InitialBackoff x BackoffFactor^k).
RECURSIVE SumOfWaits(_, _)
SumOfWaits(c, last) ==
    IF last < 0 THEN 0
    ELSE LET g == Grown(c.InitialBackoff, c.BackoffFactor, last)
         IN (IF g <= c.MaxBackoff THEN g ELSE c.MaxBackoff) + SumOfWaits(c, last - 1)

\* C15: when every attempt failed with a retryable error and Retry gave
\* up, the time it spent waiting is at most the sum over k in
\* 0..MaxAttempts-2 of min(MaxBackoff, InitialBackoff x BackoffFactor^k),
\* times 3/2 with jitter and times 1 without.
C15_TotalWaitBounded ==
    (rpc = "returned" /\ retryRet.err.kind = "exhausted") =>
        2 * slept <= (IF config.Jitter THEN 3 ELSE 2) * SumOfWaits(config, config.MaxAttempts - 2)

\* What the provider stub of the scenario returns, call after call.
StubOutcomes ==
    << [kind |-> "api", status |-> 503, timeout |-> FALSE],
       [kind |-> "api", status |-> 503, timeout |-> FALSE],
       [kind |-> "none", status |-> 0, timeout |-> FALSE] >>

\* C16: when the underlying Send fails twice with 503 and then succeeds,
\* Retry (with at least three attempts and no cancellation) returns only
\* after exactly those three calls, with the third response and no error.
C16_ThirdResponseDelivered ==
    (/\ rpc = "returned"
     /\ ~ctxDone
     /\ config.MaxAttempts >= 3
     /\ opLog # <<>>
     /\ Len(opLog) <= 3
     /\ opLog = SubSeq(StubOutcomes, 1, Len(opLog))) =>
        /\ opLog = StubOutcomes
        /\ calls = 3
        /\ retryRet = [result |-> "response", err |-> [kind |-> "none", status |-> 0, timeout |-> FALSE]]

\* The errors the claim calls retryable.
ClaimedRetryable(e) ==
    \/ e.kind = "api" /\ (e.status \in {408, 409, 429} \/ e.status \in 500..599)
    \/ e.kind = "net" /\ e.timeout

\* C17: after an attempt that failed with status 408, 409, 429 or 5xx, or
\* with a network timeout, Retry (context not cancelled, attempts left)
\* waits and tries again.
C17_ClassifiedRetryable ==
    [][(/\ rpc = "failed"
        /\ ~ctxDone
        /\ ClaimedRetryable(lastErr)
        /\ attempt < config.MaxAttempts
        /\ rpc' # rpc) => rpc' = "waiting"]_vars

\* The names of a list of function definitions, in order.
NamesOf(defs) == [i \in 1..Len(defs) |-> defs[i].name]

\* The definitions of the last call of SetFunctionDefinitions that
\* returned no error.
RECURSIVE LastInstalled(_)
LastInstalled(log) ==
    IF log = <<>> THEN <<>>
    ELSE IF ~log[Len(log)].err THEN NamesOf(log[Len(log)].defs)
    ELSE LastInstalled(SubSeq(log, 1, Len(log) - 1))

\* C18: SetFunctionDefinitions replaces the tool catalog of the chat: the
\* catalog that a request carries to the provider is exactly the list of
\* definitions of the last call that succeeded, with nothing of the
\* calls before it.
C18_SetReplacesCatalog ==
    \A i \in 1..Len(requests) : requests[i].tools = LastInstalled(setLog)

\* The type of the first content item that is neither a string nor a
\* FunctionCallResult, "" when there is none.
RECURSIVE FirstUnsupported(_)
FirstUnsupported(contents) ==
    IF contents = <<>> THEN ""
    ELSE IF Head(contents) \notin {"string", "FunctionCallResult"} THEN Head(contents)
    ELSE FirstUnsupported(Tail(contents))

\* C19: a Send whose contents hold an item that is neither a plain string
\* nor a FunctionCallResult returns an error that names the type of that
\* item, and sends no request to the provider.
C19_UnsupportedContentRejected ==
    [][\A contents \in ContentLists :
          (AzureSend(contents) /\ FirstUnsupported(contents) # "")
              => /\ sendRet'.err.kind = "unsupported content type"
                 /\ sendRet'.err.type = FirstUnsupported(contents)
                 /\ sendRet'.resp.nil
                 /\ cpc' = "returned"
                 /\ requests' = requests]_vars

\* A Send of a string followed by an int has returned the error about int
\* and the provider has seen no request.
C19_Witness ==
    /\ sendArgs = <<"string", "int">>
    /\ cpc = "returned"
    /\ sendRet.err = [kind |-> "unsupported content type", type |-> "int"]
    /\ requests = <<>>

\* The response shapes the claim lists: no candidates or choices, a choice
\* without a message (a candidate without content), a tool call with
\* missing or malformed fields.
Malformed(shape) ==
    \/ shape = <<>>
    \/ "message" \in DOMAIN shape[1] /\ ~shape[1].message
    \/ "content" \in DOMAIN shape[1] /\ ~shape[1].content
    \/ /\ "toolCalls" \in DOMAIN shape[1]
       /\ \E i \in 1..Len(shape[1].toolCalls) :
              shape[1].toolCalls[i] \in {"function-no-arguments", "function-no-name",
                                         "function-bad-json", "other-type"}

\* C20: no provider adapter panics on a response of the provider, and a
\* response with no candidates or choices, a choice without a message or a
\* tool call with missing or malformed fields ends in a returned error.
C20_NoAdapterPanic ==
    /\ adapterRet.outcome # "panic"
    /\ (adapterRet.outcome # "none" /\ Malformed(adapterRet.shape))
           => adapterRet.outcome = "error"

\* C21: each subscriber is called back for the additions and mutations of
\* blocks in the order in which they were applied to the document, also
\* when concurrent tasks issue them: the changes a subscriber has been
\* called back for are in the order of `applied`.
C21_DeliveryInMutationOrder ==
    \A s \in 1..MaxSubscriptions :
        \A i, j \in 1..Len(delivered[s]) :
            i < j => delivered[s][i] < delivered[s][j]

\* C22: a SIGINT received while a streaming command runs stops only that
\* command: the agent process keeps running, and the executor returns a
\* result and no error to the agent loop.
C22_InterruptStopsOnlyCommand ==
    (sigint \/ signalled) =>
        /\ process = "running"
        /\ tpc = "returned" => (toolRet.err = "" /\ ~toolRet.result.nil)

\* The command line has `-f` or `--follow` as a word of its own: the
\* piece stands between spaces or the ends of the line.
FollowWord(command) ==
    \E i \in 1..Len(command) :
        /\ command[i] \in {"-f", "--follow"}
        /\ i = 1 \/ command[i - 1] = " "
        /\ i = Len(command) \/ command[i + 1] = " "

\* C23: a command line that contains `-f` or `--follow` as a separate word
\* is run in streaming mode.
C23_FollowWordStreams ==
    (tpc \in {"run", "stream_start"} /\ FollowWord(toolArgs.command)) => tpc = "stream_start"

\* No Connect call between the positions i and j of the log has
\* succeeded.
NotReconnected(i, j) ==
    \A k \in (i + 1)..(j - 1) : ~(mLog[k].op = "Connect" /\ mLog[k].err = NoMcpErr)

\* C24: Connect succeeds only if the handshake and the verifying ListTools
\* both succeed: a client that is connected has passed both. After a
\* Connect that returned an error the server is not connected and its
\* transport is released, and every ListTools and CallTool made before a
\* new Connect succeeds returns an error.
C24_ConnectAllOrNothing ==
    /\ mClient = "set" => (mHandshake /\ mVerified /\ mTransport = "open")
    /\ (mRet.op = "Connect" /\ mRet.err = NoMcpErr) => mClient = "set"
    /\ (mRet.op = "Connect" /\ mRet.err # NoMcpErr) => (mClient = "nil" /\ mTransport # "open")
    /\ \A i, j \in 1..Len(mLog) :
           (/\ i < j
            /\ mLog[i].op = "Connect" /\ mLog[i].err # NoMcpErr
            /\ NotReconnected(i, j)
            /\ mLog[j].op \in {"ListTools", "CallTool"})
               => mLog[j].err = ErrNotConnected

\* The handshake succeeded and the verifying ListTools failed: Connect
\* returned the error, the transport is closed, and the CallTool that
\* followed failed.
C24_Witness ==
    /\ Len(mLog) = 2
    /\ mLog[1] = [op |-> "Connect", err |-> ErrorString("verifying connection")]
    /\ mLog[2] = [op |-> "CallTool", err |-> ErrNotConnected]
    /\ mHandshake /\ ~mVerified
    /\ mTransport = "closed"

\* C25: a tool call on a server that is not connected at call time
\* returns an error, and the error is classified as retryable.
C25_NotConnectedIsRetryable ==
    (mRet.op = "CallTool" /\ mClient = "nil")
        => (mRet.err # NoMcpErr /\ DefaultIsRetryableError(mRet.err))

\* C26: two tools of the merged catalog that differ in name or in server
\* have different ids.
C26_IdsUnique ==
    \A t, u \in mcpCatalog : t # u => ID(t) # ID(u)

\* C27: the stored messages of a session are ordered by timestamp: of two
\* stored messages the one at the lower index was appended first and its
\* timestamp is not later than the other's.
C27_OrderedByTimestamp ==
    \A i, j \in 1..Len(storedMsgs) :
        i < j => (storedMsgs[i].at <= storedMsgs[j].at /\ storedMsgs[i].Timestamp <= storedMsgs[j].Timestamp)

\* C28: last-modified is never earlier than created-at, and every append
\* of a message updates the last-modified time of the session: it is not
\* earlier than the time of any append.
C28_LastModifiedFollowsAppends ==
    /\ metadata.LastAccessed >= metadata.CreatedAt
    /\ \A i \in 1..Len(storedMsgs) : metadata.LastAccessed >= storedMsgs[i].at

\* ------------------------------------------------------------------ C29

\* No goroutine is in NewClient's map lookup while a RegisterProvider call
\* holds the registry.
NoReadDuringWrite ==
    ~(regCall.pc = "locked" /\ \E g \in Goroutines : readers[g].pc = "reading")

\* C29: the provider registry is written only during init, and no lookup
\* made by NewClient reads the provider map while a RegisterProvider call
\* is writing it; lookups may run concurrently with each other.
C29_RegistryWrittenOnlyInInit ==
    /\ []NoReadDuringWrite
    /\ [][providers' # providers => phase = "init" /\ phase' = "init"]_vars

\* Two goroutines are in the lookup at once, on a registry that the init
\* functions have filled.
C29_Witness ==
    /\ phase = "main"
    /\ DOMAIN providers # {}
    /\ \A g \in Goroutines : readers[g].pc = "reading"

\* ------------------------------------------------------------------ C30

\* The registrations of an id that returned, in order.
RegistrationsOf(id) == {i \in 1..Len(regLog) : regLog[i].id = id}

FirstRegistration(id) ==
    CHOOSE i \in RegistrationsOf(id) : \A j \in RegistrationsOf(id) : i <= j

MapBefore(i) == IF i = 1 THEN << >> ELSE regLog[i - 1].after

\* C30: registering a provider id that is already present fails with an
\* error and leaves the registered factory in place; a later lookup of that
\* id dispatches to the first factory.
C30_DuplicateKeepsFirstFactory ==
    /\ \A i \in 1..Len(regLog) :
          regLog[i].id \in DOMAIN MapBefore(i) =>
              /\ regLog[i].err = "already registered"
              /\ regLog[i].after = MapBefore(i)
    /\ \A id \in DOMAIN providers :
          providers[id] = regLog[FirstRegistration(id)].factoryFunc
    /\ \A g \in Goroutines :
          (readers[g].pc = "done" /\ readers[g].scheme \in DOMAIN providers) =>
              /\ readers[g].err = ""
              /\ readers[g].factoryFunc =
                     regLog[FirstRegistration(readers[g].scheme)].factoryFunc

\* An id was registered twice with different factories, and a lookup of it
\* made afterwards has returned.
C30_Witness ==
    \E i \in 1..Len(regLog), g \in Goroutines :
        /\ regLog[i].err = "already registered"
        /\ regLog[i].factoryFunc # regLog[FirstRegistration(regLog[i].id)].factoryFunc
        /\ readers[g].pc = "done"
        /\ readers[g].scheme = regLog[i].id
        /\ readers[g].err = ""

\* ------------------------------------------------------------------ C31

\* The semantic comparator: same type, same required set, same property
\* names, and the same again in every property and in the items.
RECURSIVE SameShape(_, _)
SameShape(S, T) ==
    /\ T.Type = S.Type
    /\ T.Required = S.Required
    /\ DOMAIN T.Properties = DOMAIN S.Properties
    /\ \A k \in DOMAIN S.Properties : SameShape(S.Properties[k], T.Properties[k])
    /\ Len(T.Items) = Len(S.Items)
    /\ \A i \in 1..Len(S.Items) : SameShape(S.Items[i], T.Items[i])

\* C31: for every provider and every schema in the uniform form, the
\* translation to the provider's dialect succeeds and preserves the type,
\* the required set and the property names at every level of properties
\* and items.
C31_TranslationPreservesShape ==
    trProvider # "none" =>
        /\ ~trOut.err
        /\ SameShape(trSchema, trOut.schema)

\* ------------------------------------------------------------------ C32

\* C32: the process exits with code 0 on success, 1 on a generic error, 2 on
\* a usage or validation error, and 130 when SIGINT arrives during the main
\* loop.
C32_ExitCodes ==
    mainPc = "exited" =>
        /\ exitCause = "success" => exitStatus = 0
        /\ exitCause = "generic" => exitStatus = 1
        /\ exitCause = "usage" => exitStatus = 2
        /\ (exitCause = "SIGINT" /\ sigInLoop) => exitStatus = 130

\* ------------------------------------------------------------------ C33

\* C33: a call of ChatMessages finishes after finitely many steps whatever
\* the history file holds, a malformed entry at any position included, and
\* has released the store lock when it finishes.
C33_ChatMessagesTerminates ==
    \A p \in Procs :
        (pc[p] = "list_scan") ~>
            (pc[p] = "idle" /\ \A h \in 1..(MaxStores + 1) : mu[h] # p)

\* ------------------------------------------------------------------ C34

\* C34: when Send on an Azure OpenAI chat returns an error (an unsupported
\* content item or a failed provider call), the history of the chat is what
\* it was before the call: here the system message StartChat put there.
C34_FailedSendLeavesHistory ==
    (provider = "azure" /\ cpc = "returned" /\ sendRet.err # NoSendErr) =>
        chatHistory = <<"system">>

\* ------------------------------------------------------------------ C35

\* C35: once Close on a subscription has returned, its subscriber is not
\* invoked for any change made later, and a notification that runs
\* concurrently with Close invokes the subscriber or skips it but never
\* calls a cleared (nil) subscriber.
C35_ClosedSubscriberNotCalled ==
    /\ \A s \in closed : \A i \in 1..Len(delivered[s]) : delivered[s][i] <= closedAt[s]
    /\ \A t \in Tasks : dpc[t] # "panic"

\* ------------------------------------------------------------------ C36

\* C36: the in-memory and the filesystem store behave the same when
\* CreateSession is called with an id that exists: the call fails, and the
\* metadata (created-at included) and the history of the session that
\* exists stay as they were.
C36_CreateExistingFailsInBoth ==
    lastCreate.existed =>
        /\ lastCreate.memErr # ""
        /\ lastCreate.fsErr # ""
        /\ memSessions[lastCreate.id] = lastCreate.memBefore
        /\ fsSessions[lastCreate.id] = lastCreate.fsBefore

\* ------------------------------------------------------------------ C37

\* C37: after SIGINT is received during a streaming command, executeCommand
\* eventually returns to its caller, even if the child does not exit or
\* close its output streams in response to the signal.
C37_InterruptedStreamReturns ==
    (sigint \/ signalled) ~> (tpc = "returned")

\* ------------------------------------------------------------------ C38

\* C38: on every return path of executeCommand taken after the child was
\* started, the child has been waited for and, when the command streamed,
\* both output readers have finished.
C38_ChildReapedOnReturn ==
    (tpc = "returned" /\ child # "none") =>
        /\ child = "reaped"
        /\ IsStreaming(CmdArgs(toolArgs.command)) => (gotOut /\ gotErr)

\* ------------------------------------------------------------------ C39

\* Some choice of the response has a message, and with it its content.
HasContent(choices) == \E i \in 1..Len(choices) : choices[i].message

\* C39: Azure OpenAI GenerateCompletion returns the message content of the
\* first choice whenever the response has a choice whose message content is
\* present, and returns an error exactly when it has none.
C39_CompletionReturnsFirstChoice ==
    (provider = "azure" /\ adapterRet.fn = "GenerateCompletion") =>
        /\ HasContent(adapterRet.shape) => adapterRet.outcome = "ok"
        /\ adapterRet.outcome = "error" <=> ~HasContent(adapterRet.shape)

\* ------------------------------------------------------------------ C40

\* C40: the HTML rendering of an agent text block corresponds to the
\* current text of the block: after any sequence of SetText and AppendText
\* calls, HTML() renders the text that Text() returns, never an earlier
\* cached rendering.
C40_HTMLRendersCurrentText ==
    lastHTML.called =>
        lastHTML.html \in {MarkdownConvert(lastHTML.text), HTMLEscapeString(lastHTML.text)}

====
